---- MODULE Spec2Model ----
(***************************************************************************)
(* Plan/execute engine of the orchestrator (src/orchestrator):             *)
(* Orchestrator.validate_plan, Orchestrator.execute_step, Orchestrator.act *)
(* and the execution history they maintain.                                *)
(*                                                                         *)
(* One act() run is a single asyncio flow of control.  Its only await is   *)
(* the wait_for around the capability running in a worker thread, so the   *)
(* run is cut there: everything between two awaits is one action.          *)
(* The "timestamp" field of a history entry is wall-clock time and is not  *)
(* part of the modelled entry.                                             *)
(***************************************************************************)
EXTENDS Integers, Sequences, FiniteSets, TLC

VARIABLES
    execution_history,  \* Orchestrator.execution_history
    pc,                 \* position of the act() coroutine
    act_plan,           \* the plan dict passed to act()
    step_i,             \* 0-based index of the step the for loop is at
    results,            \* act()'s local list `results`
    running,            \* the capability invocation wait_for is waiting on
    abandoned,          \* worker threads left running after a timeout
    invoked,            \* capability invocations started by the current act()
    history_at_call,    \* execution_history as it was when act() was called
    executed,           \* number of execute_step calls so far
    v_plan,             \* argument of validate_plan
    v_result,           \* value returned by validate_plan ("unset" before)
    current_plan,       \* Orchestrator.current_plan
    summary,            \* value returned by the last get_execution_summary
    caller,             \* the execute_task call of an engine or of the API
    emitted,            \* lifecycle events handed to the event sink
    tasks,              \* act() runs in flight together on one orchestrator
    orchs,              \* Orchestrator instances constructed side by side
    heap,               \* the list objects those instances refer to
    acting              \* the instance the last method call was made on

vars == <<execution_history, pc, act_plan, step_i, results, running, abandoned,
          invoked, history_at_call, executed, v_plan, v_result,
          current_plan, summary, caller, emitted, tasks, orchs, heap, acting>>

\* the state of the flows modelled further down
aux_vars == <<caller, emitted, tasks, orchs, heap, acting>>

run_vars == <<execution_history, pc, act_plan, step_i, results, running,
              abandoned, invoked, history_at_call, executed>>

-----------------------------------------------------------------------------
(* Bounds of the model *)

\* longest plan handed to act()
MaxSteps == 2
\* total number of execute_step calls over all act() runs
MaxExec == 3
\* longest plan handed to validate_plan
MaxValidateSteps == 3

\* a generated goal has at most this many words
MaxGoalWords == 2

\* capability invocations in a run of a planned goal
MaxTaskExec == 4

\* appends to the history of one instance among several
MaxInstanceExec == 2

-----------------------------------------------------------------------------
(* tools.py: the registry *)

TOOL_REGISTRY ==
    {"runs_record_event", "artifacts_write_text", "etl_run_job",
     "train_model", "deploy_agent"}

\* faulty variant: the lookup fails as a bare dictionary access does, with an
\* error that is not an Exception the step handles
UnknownToolError_lookup(tool_name) ==
    [type |-> "KeyboardInterrupt",
     mro |-> <<"KeyboardInterrupt", "BaseException">>, msg |-> tool_name]

\* get_tool raises ValueError(f"Unknown tool: {tool_name}") for a missing name.
\* An exception is its class name, the classes it is an instance of (the
\* __mro__ of its class: builtin classes by their name, others by module and
\* name) and str(e).
UnknownToolError(tool_name) ==
    [type |-> "ValueError",
     mro |-> <<"ValueError", "Exception", "BaseException">>,
     msg |-> "Unknown tool: " \o tool_name]

\* The mapping a capability returns when it completes; id stands for the
\* run id / job id / uri the collaborator hands back.
ToolReturn(tool, args, id) ==
    CASE tool = "runs_record_event" ->
            [status |-> "success", run_event_id |-> id]
      [] tool = "artifacts_write_text" ->
            [status |-> "success", gs_uri |-> id]
      [] tool = "etl_run_job" ->
            [status |-> "success", job_id |-> id, echo |-> args.payload]
      [] tool = "train_model" ->
            [status |-> "submitted", job_id |-> id, model_name |-> args.model_name]
      [] tool = "deploy_agent" ->
            [status |-> "deployed", deployment_id |-> id,
             agent_name |-> args.agent_name]

-----------------------------------------------------------------------------
(* orchestrator.py: TaskStep *)

DefaultTimeout == 300
DefaultRetryCount == 3

TaskStep(tool, args, depends_on, timeout, retry_count) ==
    [tool |-> tool, args |-> args, depends_on |-> depends_on,
     timeout |-> timeout, retry_count |-> retry_count]

-----------------------------------------------------------------------------
(* orchestrator.py: validate_plan *)

\* line 238: `if step["tool"] not in self.tools`
UnknownTool(step) == step.tool \notin TOOL_REGISTRY

\* faulty variant: a step may depend on itself
InvalidDependency_gt(dep, i) == dep > i

\* line 245: `if dep >= i`
InvalidDependency(dep, i) == dep >= i

\* first loop, lines 237-240: False at the first unknown tool
RECURSIVE CheckTools(_, _)
CheckTools(steps, k) ==
    IF k > Len(steps) THEN TRUE
    ELSE IF UnknownTool(steps[k]) THEN FALSE
    ELSE CheckTools(steps, k + 1)

\* inner loop, lines 244-247, for the step at 0-based index i
RECURSIVE CheckDeps(_, _, _)
CheckDeps(deps, i, j) ==
    IF j > Len(deps) THEN TRUE
    ELSE IF InvalidDependency(deps[j], i) THEN FALSE
    ELSE CheckDeps(deps, i, j + 1)

\* second loop, lines 243-247; steps[k] is the step enumerate() numbers k-1
RECURSIVE CheckSteps(_, _)
CheckSteps(steps, k) ==
    IF k > Len(steps) THEN TRUE
    ELSE IF ~CheckDeps(steps[k].depends_on, k - 1, 1) THEN FALSE
    ELSE CheckSteps(steps, k + 1)

validate_plan(plan) ==
    IF ~CheckTools(plan.steps, 1) THEN FALSE
    ELSE CheckSteps(plan.steps, 1)

-----------------------------------------------------------------------------
(* orchestrator.py: validate_plan on any mapping.  The plan is whatever the
   caller passes: keys may be missing and a dependency may be a value that
   is no number.  A value of such a plan is tagged with its Python type. *)

PyInt(n) == [int |-> n]

PyStr(s) == [str |-> s]

IsPyInt(v) == "int" \in DOMAIN v

\* a plan of the kind plan() returns, its dependencies tagged as the integers
\* they are
PyPlan(plan) ==
    [steps |-> [k \in 1..Len(plan.steps) |->
                   [plan.steps[k] EXCEPT !.depends_on =
                       [j \in 1..Len(@) |-> PyInt(@[j])]]]]

\* line 238: step["tool"] raises KeyError for a step without that key
RECURSIVE CheckToolsAny(_, _)
CheckToolsAny(steps, k) ==
    IF k > Len(steps) THEN "ok"
    ELSE IF "tool" \notin DOMAIN steps[k] THEN "KeyError"
    ELSE IF UnknownTool(steps[k]) THEN "false"
    ELSE CheckToolsAny(steps, k + 1)

\* line 244: step.get("depends_on", [])
StepDeps(step) ==
    IF "depends_on" \in DOMAIN step THEN step.depends_on ELSE <<>>

\* line 245: `dep >= i` raises TypeError when dep is a string
RECURSIVE CheckDepsAny(_, _, _)
CheckDepsAny(deps, i, j) ==
    IF j > Len(deps) THEN "ok"
    ELSE IF ~IsPyInt(deps[j]) THEN "TypeError"
    ELSE IF InvalidDependency(deps[j].int, i) THEN "false"
    ELSE CheckDepsAny(deps, i, j + 1)

RECURSIVE CheckStepsAny(_, _)
CheckStepsAny(steps, k) ==
    IF k > Len(steps) THEN "ok"
    ELSE LET d == CheckDepsAny(StepDeps(steps[k]), k - 1, 1)
         IN  IF d # "ok" THEN d ELSE CheckStepsAny(steps, k + 1)

\* lines 235-249, the body of the try statement: what it returns, or the
\* exception it raises
ValidateBody(plan) ==
    IF "steps" \notin DOMAIN plan THEN "KeyError"
    ELSE LET t == CheckToolsAny(plan.steps, 1) IN
         IF t # "ok" THEN t
         ELSE LET d == CheckStepsAny(plan.steps, 1) IN
              IF d # "ok" THEN d ELSE "true"

\* faulty variant: the exception is passed on to the caller
ValidateExcept_reraise(outcome) ==
    IF outcome \in {"KeyError", "TypeError"} THEN "raised" ELSE outcome

\* lines 251-253: `except Exception` returns False
ValidateExcept(outcome) ==
    IF outcome \in {"KeyError", "TypeError"} THEN "false" ELSE outcome

\* validate_plan(plan) for any mapping: "true", "false", or "raised"
validate_plan_any(plan) == ValidateExcept(ValidateBody(plan))

-----------------------------------------------------------------------------
(* orchestrator.py: execute_step, the three ways it ends *)

\* faulty variant: the entry does not carry the capability's mapping
SuccessEntry_noresult(step, result) ==
    [tool |-> step.tool, args |-> step.args, result |-> [status |-> "success"],
     status |-> "success"]

\* lines 179-185
SuccessEntry(step, result) ==
    [tool |-> step.tool, args |-> step.args, result |-> result,
     status |-> "success"]

\* faulty variant: the failure is recorded under the status of its outcome
FailedEntry_error(step, e) ==
    [tool |-> step.tool, args |-> step.args, error |-> e.msg,
     status |-> "error"]

\* lines 201-207; the msg of an exception is str(e)
FailedEntry(step, e) ==
    [tool |-> step.tool, args |-> step.args, error |-> e.msg,
     status |-> "failed"]

\* faulty variant: a timeout reported with the status of an error
TimeoutOutcome_error(step) ==
    [status |-> "error", tool |-> step.tool,
     error |-> "Step timed out after " \o ToString(step.timeout) \o " seconds"]

\* lines 191-195
TimeoutOutcome(step) ==
    [status |-> "timeout", tool |-> step.tool,
     error |-> "Step timed out after " \o ToString(step.timeout) \o " seconds"]

\* lines 210-214
ErrorOutcome(step, e) ==
    [status |-> "error", tool |-> step.tool, error |-> e.msg]

\* `except asyncio.TimeoutError` (line 189): isinstance(e, TimeoutError), the
\* builtin class, which asyncio.TimeoutError is; a class of that name that
\* does not derive from it is not taken, a subclass under another name is
IsTimeoutError(e) == \E i \in 1..Len(e.mro) : e.mro[i] = "TimeoutError"

\* `except Exception` (line 197): isinstance(e, Exception)
IsException(e) == \E i \in 1..Len(e.mro) : e.mro[i] = "Exception"

\* faulty variant: the second clause catches ValueError only
ExceptClause_narrow(e) ==
    IF IsTimeoutError(e) THEN "timeout"
    ELSE IF e.mro[1] = "ValueError" THEN "error"
    ELSE "propagate"

\* which clause of the try statement (lines 168-214) takes exception e
ExceptClause(e) ==
    IF IsTimeoutError(e) THEN "timeout"
    ELSE IF IsException(e) THEN "error"
    ELSE "propagate"

\* faulty variant: the entry is put in front of the history
HistoryAfterReturn_front(history, step, result) ==
    <<SuccessEntry(step, result)>> \o history

\* lines 179-185: the history after the capability of a step returned
HistoryAfterReturn(history, step, result) ==
    Append(history, SuccessEntry(step, result))

\* faulty variant: a failure overwrites the history
HistoryAfterRaise_replace(history, step, e) ==
    IF ExceptClause(e) = "error" THEN <<FailedEntry(step, e)>>
    ELSE history

\* the history after execute_step's try statement handled exception e
HistoryAfterRaise(history, step, e) ==
    IF ExceptClause(e) = "error" THEN Append(history, FailedEntry(step, e))
    ELSE history

\* the value execute_step returns after exception e
OutcomeAfterRaise(step, e) ==
    IF ExceptClause(e) = "timeout" THEN TimeoutOutcome(step)
    ELSE ErrorOutcome(step, e)

\* faulty variant: the newest result is put first
AppendResult_front(res, step, result) ==
    <<[tool |-> step.tool, result |-> result]>> \o res

\* act, lines 222-225
AppendResult(res, step, result) ==
    Append(res, [tool |-> step.tool, result |-> result])

\* act, line 228: the test of the "critical failure" branch
CriticalFailure(step, result) ==
    result.status = "error" /\ step.tool = "runs_record_event"

\* faulty variant: the loop is left at a critical failure
PcAfterStep_break(step, result) ==
    IF CriticalFailure(step, result) THEN "returned" ELSE "loop"

\* act, lines 227-229: where the loop goes after a step; the branch only
\* logs a warning
PcAfterStep(step, result) ==
    IF CriticalFailure(step, result) THEN "loop" ELSE "loop"

-----------------------------------------------------------------------------
(* orchestrator.py: plan *)

\* A goal is a string, modelled as the sequence of its characters; a
\* character is its Unicode code point (65 is "A", 304 the capital I with a
\* dot above, 931 the capital sigma).

\* The simple lower-case mapping of the Unicode data of the interpreter
\* (version 14.0.0) outside ASCII, as runs <<first, last, step, delta>>:
\* every step-th code point from first to last is mapped to itself + delta.
LowerTable ==
  <<
     <<192, 214, 1, 32>>, <<216, 222, 1, 32>>, <<256, 302, 2, 1>>, <<306, 310, 2, 1>>,
     <<313, 327, 2, 1>>, <<330, 374, 2, 1>>, <<376, 376, 1, -121>>, <<377, 381, 2, 1>>,
     <<385, 385, 1, 210>>, <<386, 388, 2, 1>>, <<390, 390, 1, 206>>, <<391, 391, 1, 1>>,
     <<393, 394, 1, 205>>, <<395, 395, 1, 1>>, <<398, 398, 1, 79>>, <<399, 399, 1, 202>>,
     <<400, 400, 1, 203>>, <<401, 401, 1, 1>>, <<403, 403, 1, 205>>, <<404, 404, 1, 207>>,
     <<406, 406, 1, 211>>, <<407, 407, 1, 209>>, <<408, 408, 1, 1>>, <<412, 412, 1, 211>>,
     <<413, 413, 1, 213>>, <<415, 415, 1, 214>>, <<416, 420, 2, 1>>, <<422, 422, 1, 218>>,
     <<423, 423, 1, 1>>, <<425, 425, 1, 218>>, <<428, 428, 1, 1>>, <<430, 430, 1, 218>>,
     <<431, 431, 1, 1>>, <<433, 434, 1, 217>>, <<435, 437, 2, 1>>, <<439, 439, 1, 219>>,
     <<440, 440, 1, 1>>, <<444, 444, 1, 1>>, <<452, 452, 1, 2>>, <<453, 453, 1, 1>>,
     <<455, 455, 1, 2>>, <<456, 456, 1, 1>>, <<458, 458, 1, 2>>, <<459, 475, 2, 1>>,
     <<478, 494, 2, 1>>, <<497, 497, 1, 2>>, <<498, 500, 2, 1>>, <<502, 502, 1, -97>>,
     <<503, 503, 1, -56>>, <<504, 542, 2, 1>>, <<544, 544, 1, -130>>, <<546, 562, 2, 1>>,
     <<570, 570, 1, 10795>>, <<571, 571, 1, 1>>, <<573, 573, 1, -163>>, <<574, 574, 1, 10792>>,
     <<577, 577, 1, 1>>, <<579, 579, 1, -195>>, <<580, 580, 1, 69>>, <<581, 581, 1, 71>>,
     <<582, 590, 2, 1>>, <<880, 882, 2, 1>>, <<886, 886, 1, 1>>, <<895, 895, 1, 116>>,
     <<902, 902, 1, 38>>, <<904, 906, 1, 37>>, <<908, 908, 1, 64>>, <<910, 911, 1, 63>>,
     <<913, 929, 1, 32>>, <<931, 939, 1, 32>>, <<975, 975, 1, 8>>, <<984, 1006, 2, 1>>,
     <<1012, 1012, 1, -60>>, <<1015, 1015, 1, 1>>, <<1017, 1017, 1, -7>>, <<1018, 1018, 1, 1>>,
     <<1021, 1023, 1, -130>>, <<1024, 1039, 1, 80>>, <<1040, 1071, 1, 32>>, <<1120, 1152, 2, 1>>,
     <<1162, 1214, 2, 1>>, <<1216, 1216, 1, 15>>, <<1217, 1229, 2, 1>>, <<1232, 1326, 2, 1>>,
     <<1329, 1366, 1, 48>>, <<4256, 4293, 1, 7264>>, <<4295, 4295, 1, 7264>>, <<4301, 4301, 1, 7264>>,
     <<5024, 5103, 1, 38864>>, <<5104, 5109, 1, 8>>, <<7312, 7354, 1, -3008>>, <<7357, 7359, 1, -3008>>,
     <<7680, 7828, 2, 1>>, <<7838, 7838, 1, -7615>>, <<7840, 7934, 2, 1>>, <<7944, 7951, 1, -8>>,
     <<7960, 7965, 1, -8>>, <<7976, 7983, 1, -8>>, <<7992, 7999, 1, -8>>, <<8008, 8013, 1, -8>>,
     <<8025, 8031, 2, -8>>, <<8040, 8047, 1, -8>>, <<8072, 8079, 1, -8>>, <<8088, 8095, 1, -8>>,
     <<8104, 8111, 1, -8>>, <<8120, 8121, 1, -8>>, <<8122, 8123, 1, -74>>, <<8124, 8124, 1, -9>>,
     <<8136, 8139, 1, -86>>, <<8140, 8140, 1, -9>>, <<8152, 8153, 1, -8>>, <<8154, 8155, 1, -100>>,
     <<8168, 8169, 1, -8>>, <<8170, 8171, 1, -112>>, <<8172, 8172, 1, -7>>, <<8184, 8185, 1, -128>>,
     <<8186, 8187, 1, -126>>, <<8188, 8188, 1, -9>>, <<8486, 8486, 1, -7517>>, <<8490, 8490, 1, -8383>>,
     <<8491, 8491, 1, -8262>>, <<8498, 8498, 1, 28>>, <<8544, 8559, 1, 16>>, <<8579, 8579, 1, 1>>,
     <<9398, 9423, 1, 26>>, <<11264, 11311, 1, 48>>, <<11360, 11360, 1, 1>>, <<11362, 11362, 1, -10743>>,
     <<11363, 11363, 1, -3814>>, <<11364, 11364, 1, -10727>>, <<11367, 11371, 2, 1>>, <<11373, 11373, 1, -10780>>,
     <<11374, 11374, 1, -10749>>, <<11375, 11375, 1, -10783>>, <<11376, 11376, 1, -10782>>, <<11378, 11378, 1, 1>>,
     <<11381, 11381, 1, 1>>, <<11390, 11391, 1, -10815>>, <<11392, 11490, 2, 1>>, <<11499, 11501, 2, 1>>,
     <<11506, 11506, 1, 1>>, <<42560, 42604, 2, 1>>, <<42624, 42650, 2, 1>>, <<42786, 42798, 2, 1>>,
     <<42802, 42862, 2, 1>>, <<42873, 42875, 2, 1>>, <<42877, 42877, 1, -35332>>, <<42878, 42886, 2, 1>>,
     <<42891, 42891, 1, 1>>, <<42893, 42893, 1, -42280>>, <<42896, 42898, 2, 1>>, <<42902, 42920, 2, 1>>,
     <<42922, 42922, 1, -42308>>, <<42923, 42923, 1, -42319>>, <<42924, 42924, 1, -42315>>, <<42925, 42925, 1, -42305>>,
     <<42926, 42926, 1, -42308>>, <<42928, 42928, 1, -42258>>, <<42929, 42929, 1, -42282>>, <<42930, 42930, 1, -42261>>,
     <<42931, 42931, 1, 928>>, <<42932, 42946, 2, 1>>, <<42948, 42948, 1, -48>>, <<42949, 42949, 1, -42307>>,
     <<42950, 42950, 1, -35384>>, <<42951, 42953, 2, 1>>, <<42960, 42960, 1, 1>>, <<42966, 42968, 2, 1>>,
     <<42997, 42997, 1, 1>>, <<65313, 65338, 1, 32>>, <<66560, 66599, 1, 40>>, <<66736, 66771, 1, 40>>,
     <<66928, 66938, 1, 39>>, <<66940, 66954, 1, 39>>, <<66956, 66962, 1, 39>>, <<66964, 66965, 1, 39>>,
     <<68736, 68786, 1, 64>>, <<71840, 71871, 1, 32>>, <<93760, 93791, 1, 32>>, <<125184, 125217, 1, 34>>
  >>

\* the code points with the property Case_Ignorable, as ranges <<first, last>>
CaseIgnorable ==
  <<
     <<39, 39>>, <<46, 46>>, <<58, 58>>, <<94, 94>>, <<96, 96>>, <<168, 168>>,
     <<173, 173>>, <<175, 175>>, <<180, 180>>, <<183, 184>>, <<688, 879>>, <<884, 885>>,
     <<890, 890>>, <<900, 901>>, <<903, 903>>, <<1155, 1161>>, <<1369, 1369>>, <<1375, 1375>>,
     <<1425, 1469>>, <<1471, 1471>>, <<1473, 1474>>, <<1476, 1477>>, <<1479, 1479>>, <<1524, 1524>>,
     <<1536, 1541>>, <<1552, 1562>>, <<1564, 1564>>, <<1600, 1600>>, <<1611, 1631>>, <<1648, 1648>>,
     <<1750, 1757>>, <<1759, 1768>>, <<1770, 1773>>, <<1807, 1807>>, <<1809, 1809>>, <<1840, 1866>>,
     <<1958, 1968>>, <<2027, 2037>>, <<2042, 2042>>, <<2045, 2045>>, <<2070, 2093>>, <<2137, 2139>>,
     <<2184, 2184>>, <<2192, 2193>>, <<2200, 2207>>, <<2249, 2306>>, <<2362, 2362>>, <<2364, 2364>>,
     <<2369, 2376>>, <<2381, 2381>>, <<2385, 2391>>, <<2402, 2403>>, <<2417, 2417>>, <<2433, 2433>>,
     <<2492, 2492>>, <<2497, 2500>>, <<2509, 2509>>, <<2530, 2531>>, <<2558, 2558>>, <<2561, 2562>>,
     <<2620, 2620>>, <<2625, 2626>>, <<2631, 2632>>, <<2635, 2637>>, <<2641, 2641>>, <<2672, 2673>>,
     <<2677, 2677>>, <<2689, 2690>>, <<2748, 2748>>, <<2753, 2757>>, <<2759, 2760>>, <<2765, 2765>>,
     <<2786, 2787>>, <<2810, 2815>>, <<2817, 2817>>, <<2876, 2876>>, <<2879, 2879>>, <<2881, 2884>>,
     <<2893, 2893>>, <<2901, 2902>>, <<2914, 2915>>, <<2946, 2946>>, <<3008, 3008>>, <<3021, 3021>>,
     <<3072, 3072>>, <<3076, 3076>>, <<3132, 3132>>, <<3134, 3136>>, <<3142, 3144>>, <<3146, 3149>>,
     <<3157, 3158>>, <<3170, 3171>>, <<3201, 3201>>, <<3260, 3260>>, <<3263, 3263>>, <<3270, 3270>>,
     <<3276, 3277>>, <<3298, 3299>>, <<3328, 3329>>, <<3387, 3388>>, <<3393, 3396>>, <<3405, 3405>>,
     <<3426, 3427>>, <<3457, 3457>>, <<3530, 3530>>, <<3538, 3540>>, <<3542, 3542>>, <<3633, 3633>>,
     <<3636, 3642>>, <<3654, 3662>>, <<3761, 3761>>, <<3764, 3772>>, <<3782, 3782>>, <<3784, 3789>>,
     <<3864, 3865>>, <<3893, 3893>>, <<3895, 3895>>, <<3897, 3897>>, <<3953, 3966>>, <<3968, 3972>>,
     <<3974, 3975>>, <<3981, 3991>>, <<3993, 4028>>, <<4038, 4038>>, <<4141, 4144>>, <<4146, 4151>>,
     <<4153, 4154>>, <<4157, 4158>>, <<4184, 4185>>, <<4190, 4192>>, <<4209, 4212>>, <<4226, 4226>>,
     <<4229, 4230>>, <<4237, 4237>>, <<4253, 4253>>, <<4348, 4348>>, <<4957, 4959>>, <<5906, 5908>>,
     <<5938, 5939>>, <<5970, 5971>>, <<6002, 6003>>, <<6068, 6069>>, <<6071, 6077>>, <<6086, 6086>>,
     <<6089, 6099>>, <<6103, 6103>>, <<6109, 6109>>, <<6155, 6159>>, <<6211, 6211>>, <<6277, 6278>>,
     <<6313, 6313>>, <<6432, 6434>>, <<6439, 6440>>, <<6450, 6450>>, <<6457, 6459>>, <<6679, 6680>>,
     <<6683, 6683>>, <<6742, 6742>>, <<6744, 6750>>, <<6752, 6752>>, <<6754, 6754>>, <<6757, 6764>>,
     <<6771, 6780>>, <<6783, 6783>>, <<6823, 6823>>, <<6832, 6862>>, <<6912, 6915>>, <<6964, 6964>>,
     <<6966, 6970>>, <<6972, 6972>>, <<6978, 6978>>, <<7019, 7027>>, <<7040, 7041>>, <<7074, 7077>>,
     <<7080, 7081>>, <<7083, 7085>>, <<7142, 7142>>, <<7144, 7145>>, <<7149, 7149>>, <<7151, 7153>>,
     <<7212, 7219>>, <<7222, 7223>>, <<7288, 7293>>, <<7376, 7378>>, <<7380, 7392>>, <<7394, 7400>>,
     <<7405, 7405>>, <<7412, 7412>>, <<7416, 7417>>, <<7468, 7530>>, <<7544, 7544>>, <<7579, 7679>>,
     <<8125, 8125>>, <<8127, 8129>>, <<8141, 8143>>, <<8157, 8159>>, <<8173, 8175>>, <<8189, 8190>>,
     <<8203, 8207>>, <<8216, 8217>>, <<8228, 8228>>, <<8231, 8231>>, <<8234, 8238>>, <<8288, 8292>>,
     <<8294, 8303>>, <<8305, 8305>>, <<8319, 8319>>, <<8336, 8348>>, <<8400, 8432>>, <<11388, 11389>>,
     <<11503, 11505>>, <<11631, 11631>>, <<11647, 11647>>, <<11744, 11775>>, <<11823, 11823>>, <<12293, 12293>>,
     <<12330, 12333>>, <<12337, 12341>>, <<12347, 12347>>, <<12441, 12446>>, <<12540, 12542>>, <<40981, 40981>>,
     <<42232, 42237>>, <<42508, 42508>>, <<42607, 42610>>, <<42612, 42621>>, <<42623, 42623>>, <<42652, 42655>>,
     <<42736, 42737>>, <<42752, 42785>>, <<42864, 42864>>, <<42888, 42890>>, <<42994, 42996>>, <<43000, 43001>>,
     <<43010, 43010>>, <<43014, 43014>>, <<43019, 43019>>, <<43045, 43046>>, <<43052, 43052>>, <<43204, 43205>>,
     <<43232, 43249>>, <<43263, 43263>>, <<43302, 43309>>, <<43335, 43345>>, <<43392, 43394>>, <<43443, 43443>>,
     <<43446, 43449>>, <<43452, 43453>>, <<43471, 43471>>, <<43493, 43494>>, <<43561, 43566>>, <<43569, 43570>>,
     <<43573, 43574>>, <<43587, 43587>>, <<43596, 43596>>, <<43632, 43632>>, <<43644, 43644>>, <<43696, 43696>>,
     <<43698, 43700>>, <<43703, 43704>>, <<43710, 43711>>, <<43713, 43713>>, <<43741, 43741>>, <<43756, 43757>>,
     <<43763, 43764>>, <<43766, 43766>>, <<43867, 43871>>, <<43881, 43883>>, <<44005, 44005>>, <<44008, 44008>>,
     <<44013, 44013>>, <<64286, 64286>>, <<64434, 64450>>, <<65024, 65039>>, <<65043, 65043>>, <<65056, 65071>>,
     <<65106, 65106>>, <<65109, 65109>>, <<65279, 65279>>, <<65287, 65287>>, <<65294, 65294>>, <<65306, 65306>>,
     <<65342, 65342>>, <<65344, 65344>>, <<65392, 65392>>, <<65438, 65439>>, <<65507, 65507>>, <<65529, 65531>>,
     <<66045, 66045>>, <<66272, 66272>>, <<66422, 66426>>, <<67456, 67461>>, <<67463, 67504>>, <<67506, 67514>>,
     <<68097, 68099>>, <<68101, 68102>>, <<68108, 68111>>, <<68152, 68154>>, <<68159, 68159>>, <<68325, 68326>>,
     <<68900, 68903>>, <<69291, 69292>>, <<69446, 69456>>, <<69506, 69509>>, <<69633, 69633>>, <<69688, 69702>>,
     <<69744, 69744>>, <<69747, 69748>>, <<69759, 69761>>, <<69811, 69814>>, <<69817, 69818>>, <<69821, 69821>>,
     <<69826, 69826>>, <<69837, 69837>>, <<69888, 69890>>, <<69927, 69931>>, <<69933, 69940>>, <<70003, 70003>>,
     <<70016, 70017>>, <<70070, 70078>>, <<70089, 70092>>, <<70095, 70095>>, <<70191, 70193>>, <<70196, 70196>>,
     <<70198, 70199>>, <<70206, 70206>>, <<70367, 70367>>, <<70371, 70378>>, <<70400, 70401>>, <<70459, 70460>>,
     <<70464, 70464>>, <<70502, 70508>>, <<70512, 70516>>, <<70712, 70719>>, <<70722, 70724>>, <<70726, 70726>>,
     <<70750, 70750>>, <<70835, 70840>>, <<70842, 70842>>, <<70847, 70848>>, <<70850, 70851>>, <<71090, 71093>>,
     <<71100, 71101>>, <<71103, 71104>>, <<71132, 71133>>, <<71219, 71226>>, <<71229, 71229>>, <<71231, 71232>>,
     <<71339, 71339>>, <<71341, 71341>>, <<71344, 71349>>, <<71351, 71351>>, <<71453, 71455>>, <<71458, 71461>>,
     <<71463, 71467>>, <<71727, 71735>>, <<71737, 71738>>, <<71995, 71996>>, <<71998, 71998>>, <<72003, 72003>>,
     <<72148, 72151>>, <<72154, 72155>>, <<72160, 72160>>, <<72193, 72202>>, <<72243, 72248>>, <<72251, 72254>>,
     <<72263, 72263>>, <<72273, 72278>>, <<72281, 72283>>, <<72330, 72342>>, <<72344, 72345>>, <<72752, 72758>>,
     <<72760, 72765>>, <<72767, 72767>>, <<72850, 72871>>, <<72874, 72880>>, <<72882, 72883>>, <<72885, 72886>>,
     <<73009, 73014>>, <<73018, 73018>>, <<73020, 73021>>, <<73023, 73029>>, <<73031, 73031>>, <<73104, 73105>>,
     <<73109, 73109>>, <<73111, 73111>>, <<73459, 73460>>, <<78896, 78904>>, <<92912, 92916>>, <<92976, 92982>>,
     <<92992, 92995>>, <<94031, 94031>>, <<94095, 94111>>, <<94176, 94177>>, <<94179, 94180>>, <<110576, 110579>>,
     <<110581, 110587>>, <<110589, 110590>>, <<113821, 113822>>, <<113824, 113827>>, <<118528, 118573>>, <<118576, 118598>>,
     <<119143, 119145>>, <<119155, 119170>>, <<119173, 119179>>, <<119210, 119213>>, <<119362, 119364>>, <<121344, 121398>>,
     <<121403, 121452>>, <<121461, 121461>>, <<121476, 121476>>, <<121499, 121503>>, <<121505, 121519>>, <<122880, 122886>>,
     <<122888, 122904>>, <<122907, 122913>>, <<122915, 122916>>, <<122918, 122922>>, <<123184, 123197>>, <<123566, 123566>>,
     <<123628, 123631>>, <<125136, 125142>>, <<125252, 125259>>, <<127995, 127999>>, <<917505, 917505>>, <<917536, 917631>>,
     <<917760, 917999>>
  >>

\* the code points with the property Cased that are not Case_Ignorable
Cased ==
  <<
     <<65, 90>>, <<97, 122>>, <<170, 170>>, <<181, 181>>, <<186, 186>>, <<192, 214>>,
     <<216, 246>>, <<248, 442>>, <<444, 447>>, <<452, 659>>, <<661, 687>>, <<880, 883>>,
     <<886, 887>>, <<891, 893>>, <<895, 895>>, <<902, 902>>, <<904, 906>>, <<908, 908>>,
     <<910, 929>>, <<931, 1013>>, <<1015, 1153>>, <<1162, 1327>>, <<1329, 1366>>, <<1376, 1416>>,
     <<4256, 4293>>, <<4295, 4295>>, <<4301, 4301>>, <<4304, 4346>>, <<4349, 4351>>, <<5024, 5109>>,
     <<5112, 5117>>, <<7296, 7304>>, <<7312, 7354>>, <<7357, 7359>>, <<7424, 7467>>, <<7531, 7543>>,
     <<7545, 7578>>, <<7680, 7957>>, <<7960, 7965>>, <<7968, 8005>>, <<8008, 8013>>, <<8016, 8023>>,
     <<8025, 8025>>, <<8027, 8027>>, <<8029, 8029>>, <<8031, 8061>>, <<8064, 8116>>, <<8118, 8124>>,
     <<8126, 8126>>, <<8130, 8132>>, <<8134, 8140>>, <<8144, 8147>>, <<8150, 8155>>, <<8160, 8172>>,
     <<8178, 8180>>, <<8182, 8188>>, <<8450, 8450>>, <<8455, 8455>>, <<8458, 8467>>, <<8469, 8469>>,
     <<8473, 8477>>, <<8484, 8484>>, <<8486, 8486>>, <<8488, 8488>>, <<8490, 8493>>, <<8495, 8500>>,
     <<8505, 8505>>, <<8508, 8511>>, <<8517, 8521>>, <<8526, 8526>>, <<8544, 8575>>, <<8579, 8580>>,
     <<9398, 9449>>, <<11264, 11387>>, <<11390, 11492>>, <<11499, 11502>>, <<11506, 11507>>, <<11520, 11557>>,
     <<11559, 11559>>, <<11565, 11565>>, <<42560, 42605>>, <<42624, 42651>>, <<42786, 42863>>, <<42865, 42887>>,
     <<42891, 42894>>, <<42896, 42954>>, <<42960, 42961>>, <<42963, 42963>>, <<42965, 42969>>, <<42997, 42998>>,
     <<43002, 43002>>, <<43824, 43866>>, <<43872, 43880>>, <<43888, 43967>>, <<64256, 64262>>, <<64275, 64279>>,
     <<65313, 65338>>, <<65345, 65370>>, <<66560, 66639>>, <<66736, 66771>>, <<66776, 66811>>, <<66928, 66938>>,
     <<66940, 66954>>, <<66956, 66962>>, <<66964, 66965>>, <<66967, 66977>>, <<66979, 66993>>, <<66995, 67001>>,
     <<67003, 67004>>, <<68736, 68786>>, <<68800, 68850>>, <<71840, 71903>>, <<93760, 93823>>, <<119808, 119892>>,
     <<119894, 119964>>, <<119966, 119967>>, <<119970, 119970>>, <<119973, 119974>>, <<119977, 119980>>, <<119982, 119993>>,
     <<119995, 119995>>, <<119997, 120003>>, <<120005, 120069>>, <<120071, 120074>>, <<120077, 120084>>, <<120086, 120092>>,
     <<120094, 120121>>, <<120123, 120126>>, <<120128, 120132>>, <<120134, 120134>>, <<120138, 120144>>, <<120146, 120485>>,
     <<120488, 120512>>, <<120514, 120538>>, <<120540, 120570>>, <<120572, 120596>>, <<120598, 120628>>, <<120630, 120654>>,
     <<120656, 120686>>, <<120688, 120712>>, <<120714, 120744>>, <<120746, 120770>>, <<120772, 120779>>, <<122624, 122633>>,
     <<122635, 122654>>, <<125184, 125251>>, <<127280, 127305>>, <<127312, 127337>>, <<127344, 127369>>
  >>

\* str.lower on a string of the one character c: the characters it gives.
\* The capital I with a dot above gives two, i and the combining dot.
Lower(c) ==
    IF c < 128 THEN (IF c >= 65 /\ c <= 90 THEN <<c + 32>> ELSE <<c>>)
    ELSE IF c = 304 THEN <<105, 775>>
    ELSE LET hit(r) == r[1] <= c /\ c <= r[2] /\ (c - r[1]) % r[3] = 0
         IN  IF \E i \in 1..Len(LowerTable) : hit(LowerTable[i])
             THEN <<c + LowerTable[CHOOSE i \in 1..Len(LowerTable) :
                                      hit(LowerTable[i])][4]>>
             ELSE <<c>>

\* the capital sigma at position i of goal stands in final position: the
\* nearest character before it that is not case-ignorable is cased, and the
\* nearest one after it that is not case-ignorable, if there is one, is not
FinalSigma(goal, i) ==
    LET in(c, T) == \E k \in 1..Len(T) : T[k][1] <= c /\ c <= T[k][2]
        skipped(j, m) == \A n \in j..m : in(goal[n], CaseIgnorable)
    IN  /\ \E j \in 1..(i - 1) :
              in(goal[j], Cased) /\ skipped(j + 1, i - 1)
        /\ ~\E j \in (i + 1)..Len(goal) :
              in(goal[j], Cased) /\ skipped(i + 1, j - 1)

\* line 74: goal.lower(): every character is replaced by its lower-case
\* form, the capital sigma by the final small sigma (962) where it stands in
\* final position; the result may be longer than the goal
ToLower(goal) ==
    LET RECURSIVE from(_)
        from(i) ==
            IF i > Len(goal) THEN <<>>
            ELSE (IF goal[i] = 931 /\ FinalSigma(goal, i) THEN <<962>>
                  ELSE Lower(goal[i])) \o from(i + 1)
    IN  from(1)

\* faulty variant: positions past the end of s match anything
Contains_loose(s, kw) ==
    \E i \in 0..Len(s) :
        \A j \in 1..Len(kw) : i + j <= Len(s) => s[i + j] = kw[j]

\* the `in` operator on strings: kw occurs in s as a contiguous substring
Contains(s, kw) ==
    \E i \in 0..(Len(s) - Len(kw)) : \A j \in 1..Len(kw) : s[i + j] = kw[j]

\* the keywords of lines 76, 91 and 109
\* "etl"
KwEtl == <<101, 116, 108>>

\* "data"
KwData == <<100, 97, 116, 97>>

\* "pipeline"
KwPipeline == <<112, 105, 112, 101, 108, 105, 110, 101>>

\* "train"
KwTrain == <<116, 114, 97, 105, 110>>

\* "model"
KwModel == <<109, 111, 100, 101, 108>>

\* "deploy"
KwDeploy == <<100, 101, 112, 108, 111, 121>>

\* "agent"
KwAgent == <<97, 103, 101, 110, 116>>

\* faulty variant: the training keywords are tested before the ETL ones
Workflow_training_first(goal_lower) ==
    IF Contains(goal_lower, KwTrain) \/ Contains(goal_lower, KwModel)
    THEN "training"
    ELSE IF \/ Contains(goal_lower, KwEtl)
            \/ Contains(goal_lower, KwData)
            \/ Contains(goal_lower, KwPipeline)
    THEN "etl"
    ELSE IF Contains(goal_lower, KwDeploy) \/ Contains(goal_lower, KwAgent)
    THEN "deployment"
    ELSE "generic"

\* lines 76, 91, 109, 120: the branch of the if/elif chain that is taken
Workflow(goal_lower) ==
    IF \/ Contains(goal_lower, KwEtl)
       \/ Contains(goal_lower, KwData)
       \/ Contains(goal_lower, KwPipeline)
    THEN "etl"
    ELSE IF Contains(goal_lower, KwTrain) \/ Contains(goal_lower, KwModel)
    THEN "training"
    ELSE IF Contains(goal_lower, KwDeploy) \/ Contains(goal_lower, KwAgent)
    THEN "deployment"
    ELSE "generic"

\* int(datetime.utcnow().timestamp()) written into a path by an f-string
TimestampPath(prefix, now, suffix) == prefix \o ToString(now) \o suffix

\* a text rendered from a fixed template and the goal (json.dumps, f-string)
Rendered(template, goal) == [template |-> template, goal |-> goal]

\* lines 76-135: the steps the taken branch appends
DomainSteps(goal, now) ==
    LET goal_lower == ToLower(goal)
        branch == Workflow(goal_lower)
    IN  CASE branch = "etl" ->
               <<TaskStep("etl_run_job",
                          [payload |-> [goal |-> goal, pipeline |-> "default"]],
                          <<0>>, DefaultTimeout, DefaultRetryCount),
                 TaskStep("artifacts_write_text",
                          [path |-> TimestampPath("etl/results/", now, ".json"),
                           content |-> Rendered("json: goal, status=completed",
                                                goal)],
                          <<1>>, DefaultTimeout, DefaultRetryCount)>>
          [] branch = "training" ->
               <<TaskStep("train_model",
                          [model_name |-> "orchestrator-model",
                           config |-> [epochs |-> 10, batch_size |-> 32]],
                          <<0>>, DefaultTimeout, DefaultRetryCount),
                 TaskStep("artifacts_write_text",
                          [path |-> TimestampPath("training/logs/", now, ".txt"),
                           content |-> Rendered("Training initiated for goal: {goal}",
                                                goal)],
                          <<1>>, DefaultTimeout, DefaultRetryCount)>>
          [] branch = "deployment" ->
               <<TaskStep("deploy_agent",
                          [agent_name |-> "orchestrator-nova",
                           version |-> "v1.0.0",
                           config |-> [replicas |-> 1, memory |-> "2Gi"]],
                          <<0>>, DefaultTimeout, DefaultRetryCount)>>
          [] branch = "generic" ->
               <<TaskStep("etl_run_job",
                          [payload |-> [goal |-> goal, type |-> "generic"]],
                          <<0>>, DefaultTimeout, DefaultRetryCount),
                 TaskStep("artifacts_write_text",
                          [path |-> TimestampPath("runs/", now, ".txt"),
                           content |-> Rendered("Goal: {goal}\nStatus: Processing",
                                                goal)],
                          <<1>>, DefaultTimeout, DefaultRetryCount)>>

\* faulty variant: the closing step depends on its own index
DoneDependsOn_len(steps) == <<Len(steps)>>

\* faulty variant: the closing step depends on the opening step
DoneDependsOn_first(steps) == <<0>>

\* line 140: depends_on of the closing step, given the steps before it
DoneDependsOn(steps) == IF Len(steps) > 1 THEN <<Len(steps) - 1>> ELSE <<>>

\* faulty variant: the opening step names the capability by a name the
\* registry does not have
PlanEventStep_alias(goal) ==
    TaskStep("record_event",
             [event_type |-> "PLAN", details |-> [goal |-> goal]],
             <<>>, DefaultTimeout, DefaultRetryCount)

\* lines 68-71
PlanEventStep(goal) ==
    TaskStep("runs_record_event",
             [event_type |-> "PLAN", details |-> [goal |-> goal]],
             <<>>, DefaultTimeout, DefaultRetryCount)

\* lines 137-141
DoneEventStep(goal, steps) ==
    TaskStep("runs_record_event",
             [event_type |-> "DONE", details |-> [goal |-> goal]],
             DoneDependsOn(steps), DefaultTimeout, DefaultRetryCount)

\* lines 144-151 and 155-160: the plan object and the mapping returned for it
PlanOf(goal, steps, now) ==
    [goal |-> goal,
     steps |-> steps,
     metadata |-> [planner_version |-> "1.0.0",
                   estimated_duration_seconds |-> Len(steps) * 5],
     created_at |-> now]

\* faulty variant: the timeouts of the steps are derived from the clock
Plan_clock(goal, clock) ==
    LET steps == <<PlanEventStep(goal)>> \o DomainSteps(goal, clock.path)
        all == Append(steps, DoneEventStep(goal, steps))
    IN  PlanOf(goal,
               [i \in 1..Len(all) |->
                   [all[i] EXCEPT !.timeout =
                       IF clock.created % 2 = 0 THEN @ ELSE 1]],
               clock.created)

\* faulty variant: the opening event step is left out
Plan_nostart(goal, clock) ==
    LET steps == DomainSteps(goal, clock.path)
    IN  PlanOf(goal, Append(steps, DoneEventStep(goal, steps)), clock.created)

\* plan(goal): the clock is read twice, for the path of the artifact step
\* (lines 85, 103, 130) and, later, for created_at (line 40, evaluated at
\* line 144); `plan` names call arguments below
Plan(goal, clock) ==
    LET steps == <<PlanEventStep(goal)>> \o DomainSteps(goal, clock.path)
    IN  PlanOf(goal, Append(steps, DoneEventStep(goal, steps)), clock.created)

-----------------------------------------------------------------------------
(* orchestrator.py: get_execution_summary *)

\* sum(1 for e in self.execution_history if e["status"] == status), from
\* entry k on
RECURSIVE CountStatus(_, _, _)
CountStatus(history, status, k) ==
    IF k > Len(history) THEN 0
    ELSE (IF history[k].status = status THEN 1 ELSE 0)
         + CountStatus(history, status, k + 1)

RECURSIVE Gcd(_, _)
Gcd(a, b) == IF b = 0 THEN a ELSE Gcd(b, a % b)

\* the value of the true division n / d (d > 0), as a fraction in lowest terms
Quotient(n, d) == [num |-> n \div Gcd(n, d), den |-> d \div Gcd(n, d)]

\* the number 0 the conditional expressions of lines 267 fall back to
Zero == [num |-> 0, den |-> 1]

\* lines 262-269: the mapping built from the history
SummaryOf(history) ==
    LET successful == CountStatus(history, "success", 1)
        failed == CountStatus(history, "failed", 1)
    IN  [total_executions |-> Len(history),
         successful |-> successful,
         failed |-> failed,
         success_rate |-> IF history # <<>>
                          THEN Quotient(successful, Len(history))
                          ELSE Zero,
         last_execution |-> IF history # <<>>
                            THEN history[Len(history)]
                            ELSE [kind |-> "none"]]

\* lines 257-258
NoHistoryMarker == [message |-> "No execution history"]

\* faulty variant: the last execution is taken from the front of the history
get_execution_summary_first(history) ==
    IF history = <<>> THEN NoHistoryMarker
    ELSE [SummaryOf(history) EXCEPT !.last_execution = history[1]]

\* faulty variant: no early return for an empty history
get_execution_summary_noguard(history) == SummaryOf(history)

get_execution_summary(history) ==
    IF history = <<>> THEN NoHistoryMarker ELSE SummaryOf(history)

\* faulty variant: the CLI engine's loop is left at the first step that did
\* not succeed
CliPcAfterStep_stop(step, result) ==
    IF result.status \in {"error", "timeout"} THEN "returned" ELSE "loop"

\* main.py, lines 87-93: the body of the CLI engine's loop has no branch that
\* leaves it
CliPcAfterStep(step, result) == "loop"

\* main.py, line 89: the CLI engine's own loop appends the bare result
CliAppendResult(res, result) == Append(res, result)

\* the append of the loop that is running: act's, or the CLI engine's
LoopAppend(res, step, result) ==
    IF caller.kind = "cli" THEN CliAppendResult(res, result)
    ELSE AppendResult(res, step, result)

-----------------------------------------------------------------------------
(* Inputs *)

NoCall == [kind |-> "none"]
NoPlan == [steps |-> <<>>]

\* current_plan = None, as __init__ leaves it
NoCurrentPlan == [kind |-> "none"]

\* no get_execution_summary call has returned yet
NoSummary == [kind |-> "unset"]

\* an optional value: None, or the value
None == <<>>

Some(v) == <<v>>

\* no execute_task call has been made
NoCaller ==
    [kind |-> "none", pc |-> "none", goal |-> <<>>, verbose |-> FALSE,
     event |-> "none", sink |-> "none",
     plan |-> NoCurrentPlan, response |-> [status |-> "none"]]

\* names of the act() runs that may be in flight together
TaskIds == {"t1", "t2"}

\* an act() run that has not been started
IdleTask == [pc |-> "idle"]

ArgsFor(tool) ==
    IF tool = "runs_record_event"
    THEN [event_type |-> "PLAN", details |-> "goal"]
    ELSE [payload |-> "job"]

\* The steps plans are built from: the planner's first two steps with their
\* defaults, a job step with a short timeout and no retry budget, and a step
\* naming a tool the registry does not have.
StepInputs ==
    {TaskStep("runs_record_event", ArgsFor("runs_record_event"), <<>>,
              DefaultTimeout, DefaultRetryCount),
     TaskStep("etl_run_job", ArgsFor("etl_run_job"), <<0>>,
              DefaultTimeout, DefaultRetryCount),
     TaskStep("etl_run_job", ArgsFor("etl_run_job"), <<0>>, 1, 0),
     TaskStep("no_such_tool", ArgsFor("no_such_tool"), <<>>,
              DefaultTimeout, DefaultRetryCount)}

SeqsUpTo(S, n) == UNION {[1..k -> S] : k \in 0..n}

PlanInputs == {[steps |-> s] : s \in SeqsUpTo(StepInputs, MaxSteps)}

\* how long the capability works, in seconds
Durations == {0, 5}

\* what the capability does when it is done
Exceptions ==
    {[type |-> "OperationalError",
      mro |-> <<"psycopg.OperationalError", "psycopg.DatabaseError",
                "psycopg.Error", "Exception", "BaseException">>,
      msg |-> "connection refused"],
     [type |-> "TimeoutError",
      mro |-> <<"multiprocessing.context.TimeoutError",
                "multiprocessing.context.ProcessError", "Exception",
                "BaseException">>,
      msg |-> "worker pool timed out"],
     [type |-> "TimeoutError",
      mro |-> <<"TimeoutError", "OSError", "Exception", "BaseException">>,
      msg |-> "socket timed out"]}

\* what the capability of a step may do when it is done: return its mapping,
\* with one of the ids a collaborator may hand back, or raise
BehavioursOf(step) ==
    {[kind |-> "return", value |-> ToolReturn(step.tool, step.args, i)] :
        i \in {"id_a", "id_b"}}
    \cup {[kind |-> "raise", exc |-> e] : e \in Exceptions}

AllBehaviours ==
    UNION {BehavioursOf(step) : step \in {x \in StepInputs : x.tool \in TOOL_REGISTRY}}

ValidateSteps ==
    LET DepInputs ==
            {<<>>} \cup {<<d>> : d \in (-1 .. MaxValidateSteps) \cup {5}}
            \cup {<<0, 1>>, <<0, 5>>, <<1, -1>>}
    IN  {TaskStep(t, ArgsFor(t), d, DefaultTimeout, DefaultRetryCount) :
            t \in {"etl_run_job", "no_such_tool"}, d \in DepInputs}

ValidateInputs ==
    {[steps |-> s] : s \in SeqsUpTo(ValidateSteps, MaxValidateSteps)}

-----------------------------------------------------------------------------
(* State after Orchestrator.__init__ *)

Init ==
    /\ execution_history = <<>>
    /\ pc = "idle"
    /\ act_plan = NoPlan
    /\ step_i = 0
    /\ results = <<>>
    /\ running = NoCall
    /\ abandoned = 0
    /\ invoked = <<>>
    /\ history_at_call = <<>>
    /\ executed = 0
    /\ v_plan = NoPlan
    /\ v_result = "unset"
    /\ current_plan = NoCurrentPlan
    /\ summary = NoSummary
    /\ caller = NoCaller
    /\ emitted = <<>>
    /\ tasks = [k \in TaskIds |-> IdleTask]
    /\ orchs = <<>>
    /\ heap = <<>>
    /\ acting = "none"

CurrentStep == act_plan.steps[step_i + 1]

\* act() is entered: results = [] and the for loop starts
ActEnter(plan, budget) ==
    /\ pc \in {"idle", "returned"}
    /\ executed + Len(plan.steps) <= budget
    /\ pc' = "loop"
    /\ act_plan' = plan
    /\ step_i' = 0
    /\ results' = <<>>
    /\ invoked' = <<>>
    /\ history_at_call' = execution_history
    /\ UNCHANGED <<execution_history, running, abandoned, executed,
                   v_plan, v_result, current_plan, summary>>
    /\ UNCHANGED aux_vars

\* act() called with a plan written by the caller
ActCall(plan) == ActEnter(plan, MaxExec)

\* execute_step up to its await, for a registered tool and a positive
\* timeout: get_tool succeeds and the capability is started in a worker
\* thread under wait_for
StepInvoke(d, b) ==
    /\ pc = "loop"
    /\ step_i < Len(act_plan.steps)
    /\ CurrentStep.tool \in TOOL_REGISTRY
    /\ CurrentStep.timeout > 0
    /\ b \in BehavioursOf(CurrentStep)
    /\ running' = [kind |-> "call", index |-> step_i, step |-> CurrentStep,
                   duration |-> d, behaviour |-> b]
    /\ invoked' = Append(invoked, [index |-> step_i, tool |-> CurrentStep.tool,
                                   args |-> CurrentStep.args])
    /\ pc' = "awaiting"
    /\ executed' = executed + 1
    /\ UNCHANGED <<execution_history, act_plan, step_i, results, abandoned,
                   history_at_call, v_plan, v_result, current_plan, summary>>
    /\ UNCHANGED aux_vars

\* execute_step up to its await, for a registered tool and a timeout that is
\* zero or negative: wait_for (lines 173-176) cancels the to_thread coroutine
\* before it has taken its first step, so the capability is never started,
\* and waits for the cancellation; act is suspended there and other
\* coroutines of the event loop get their turn
StepTimeoutNotPositive ==
    /\ pc = "loop"
    /\ step_i < Len(act_plan.steps)
    /\ CurrentStep.tool \in TOOL_REGISTRY
    /\ CurrentStep.timeout <= 0
    /\ running' = [kind |-> "cancelled", index |-> step_i, step |-> CurrentStep]
    /\ pc' = "cancelling"
    /\ executed' = executed + 1
    /\ UNCHANGED <<execution_history, act_plan, step_i, results, abandoned,
                   invoked, history_at_call, v_plan, v_result, current_plan,
                   summary>>
    /\ UNCHANGED aux_vars

\* the cancellation is done: wait_for raises TimeoutError, the clause of
\* lines 189-195 returns the timeout outcome and the loop body of act
\* appends it; no worker thread is left behind
CancelledBeforeStart ==
    /\ pc = "cancelling"
    /\ LET step == running.step IN
        /\ results' = LoopAppend(results, step, TimeoutOutcome(step))
        /\ pc' = PcAfterStep(step, TimeoutOutcome(step))
    /\ step_i' = step_i + 1
    /\ running' = NoCall
    /\ UNCHANGED <<execution_history, act_plan, abandoned, invoked,
                   history_at_call, executed, v_plan, v_result, current_plan,
                   summary>>
    /\ UNCHANGED aux_vars

\* execute_step for a tool get_tool does not know: the ValueError is raised
\* inside the try statement, before anything is awaited
StepUnknownTool ==
    /\ pc = "loop"
    /\ step_i < Len(act_plan.steps)
    /\ CurrentStep.tool \notin TOOL_REGISTRY
    /\ LET e == UnknownToolError(CurrentStep.tool) IN
        /\ execution_history' = HistoryAfterRaise(execution_history, CurrentStep, e)
        /\ IF ExceptClause(e) = "propagate"
           THEN pc' = "raised" /\ UNCHANGED <<results, step_i>>
           ELSE /\ results' = LoopAppend(results, CurrentStep,
                                         OutcomeAfterRaise(CurrentStep, e))
                /\ step_i' = step_i + 1
                /\ pc' = PcAfterStep(CurrentStep,
                                     OutcomeAfterRaise(CurrentStep, e))
    /\ executed' = executed + 1
    /\ UNCHANGED <<act_plan, running, abandoned, invoked, history_at_call,
                   v_plan, v_result, current_plan, summary>>
    /\ UNCHANGED aux_vars

\* the capability returns before the timer fires: lines 178-187, then the
\* loop body of act
CapabilityReturns ==
    /\ pc = "awaiting"
    /\ running.behaviour.kind = "return"
    /\ running.duration <= running.step.timeout
    /\ LET step == running.step
           result == running.behaviour.value
       IN /\ execution_history' =
                 HistoryAfterReturn(execution_history, step, result)
          /\ results' = LoopAppend(results, step, result)
          /\ pc' = PcAfterStep(step, result)
    /\ step_i' = step_i + 1
    /\ running' = NoCall
    /\ UNCHANGED <<act_plan, abandoned, invoked, history_at_call, executed,
                   v_plan, v_result, current_plan, summary>>
    /\ UNCHANGED aux_vars

\* faulty variant: a raising capability is invoked again while the step's
\* retry_count allows
CapabilityRaises_retry ==
    /\ pc = "awaiting"
    /\ running.behaviour.kind = "raise"
    /\ running.duration <= running.step.timeout
    /\ LET step == running.step
           e == running.behaviour.exc
           attempts == Cardinality({k \in 1..Len(invoked) :
                                       invoked[k].index = running.index})
       IN IF attempts <= step.retry_count
          THEN /\ invoked' = Append(invoked, [index |-> running.index,
                                              tool |-> step.tool,
                                              args |-> step.args])
               /\ UNCHANGED <<execution_history, pc, results, step_i, running>>
          ELSE /\ execution_history' =
                      HistoryAfterRaise(execution_history, step, e)
               /\ results' = LoopAppend(results, step,
                                        OutcomeAfterRaise(step, e))
               /\ step_i' = step_i + 1
               /\ pc' = "loop"
               /\ running' = NoCall
               /\ UNCHANGED invoked
    /\ UNCHANGED <<act_plan, abandoned, history_at_call, executed,
                   v_plan, v_result, current_plan, summary>>
    /\ UNCHANGED aux_vars

\* the capability raises before the timer fires: the except clauses
CapabilityRaises ==
    /\ pc = "awaiting"
    /\ running.behaviour.kind = "raise"
    /\ running.duration <= running.step.timeout
    /\ LET step == running.step
           e == running.behaviour.exc
       IN /\ execution_history' = HistoryAfterRaise(execution_history, step, e)
          /\ IF ExceptClause(e) = "propagate"
             THEN pc' = "raised" /\ UNCHANGED <<results, step_i>>
             ELSE /\ results' = LoopAppend(results, step,
                                           OutcomeAfterRaise(step, e))
                  /\ step_i' = step_i + 1
                  /\ pc' = PcAfterStep(step, OutcomeAfterRaise(step, e))
    /\ running' = NoCall
    /\ UNCHANGED <<act_plan, abandoned, invoked, history_at_call, executed,
                   v_plan, v_result, current_plan, summary>>
    /\ UNCHANGED aux_vars

\* the timer fires first: wait_for cancels the wait and raises
\* asyncio.TimeoutError; the worker thread is not stopped
TimeoutElapses ==
    /\ pc = "awaiting"
    /\ running.duration >= running.step.timeout
    /\ LET step == running.step IN
          /\ results' = LoopAppend(results, step, TimeoutOutcome(step))
          /\ pc' = PcAfterStep(step, TimeoutOutcome(step))
    /\ step_i' = step_i + 1
    /\ running' = NoCall
    /\ abandoned' = abandoned + 1
    /\ UNCHANGED <<execution_history, act_plan, invoked, history_at_call,
                   executed, v_plan, v_result, current_plan, summary>>
    /\ UNCHANGED aux_vars

\* faulty variant: the abandoned thread's completion is recorded after all
AbandonedFinishes_records ==
    /\ abandoned > 0
    /\ abandoned' = abandoned - 1
    /\ execution_history' =
           HistoryAfterReturn(execution_history, act_plan.steps[1],
                              ToolReturn(act_plan.steps[1].tool,
                                         act_plan.steps[1].args, "late"))
    /\ UNCHANGED <<pc, act_plan, step_i, results, running,
                   invoked, history_at_call, executed, v_plan, v_result, current_plan, summary>>
    /\ UNCHANGED aux_vars

\* a worker thread abandoned by a timeout finishes, by returning or by
\* raising: wait_for cancelled the future that would have carried its result,
\* and nobody awaits it
AbandonedFinishes ==
    /\ abandoned > 0
    /\ abandoned' = abandoned - 1
    /\ UNCHANGED <<execution_history, pc, act_plan, step_i, results, running,
                   invoked, history_at_call, executed, v_plan, v_result, current_plan, summary>>
    /\ UNCHANGED aux_vars

\* step k (1-based) of the plan depends on a step that ended in an error or a
\* timeout; res holds the outcomes so far, as act collects them
DependencyFailed(steps, res, k) ==
    \E j \in 1..Len(steps[k].depends_on) :
        LET dep == steps[k].depends_on[j] IN
        /\ dep >= 0
        /\ dep < Len(res)
        /\ res[dep + 1].result.status \in {"error", "timeout"}

\* faulty variant: the loop is also left when the next step depends on a
\* failed one
ActReturn_dependencies ==
    /\ pc = "loop"
    /\ \/ step_i = Len(act_plan.steps)
       \/ /\ step_i < Len(act_plan.steps)
          /\ DependencyFailed(act_plan.steps, results, step_i + 1)
    /\ pc' = "returned"
    /\ UNCHANGED <<execution_history, act_plan, step_i, results, running,
                   abandoned, invoked, history_at_call, executed,
                   v_plan, v_result, current_plan, summary>>
    /\ UNCHANGED aux_vars

\* the for loop is exhausted: `return results`
ActReturn ==
    /\ pc = "loop"
    /\ step_i = Len(act_plan.steps)
    /\ pc' = "returned"
    /\ UNCHANGED <<execution_history, act_plan, step_i, results, running,
                   abandoned, invoked, history_at_call, executed,
                   v_plan, v_result, current_plan, summary>>
    /\ UNCHANGED aux_vars

\* one step of a running act()
ActStep ==
    \/ \E d \in Durations, b \in AllBehaviours : StepInvoke(d, b)
    \/ StepUnknownTool
    \/ CapabilityReturns
    \/ CapabilityRaises
    \/ TimeoutElapses
    \/ ActReturn

Next ==
    \/ \E plan \in PlanInputs : ActCall(plan)
    \/ \E d \in Durations, b \in AllBehaviours : StepInvoke(d, b)
    \/ StepUnknownTool
    \/ CapabilityReturns
    \/ CapabilityRaises
    \/ TimeoutElapses
    \/ AbandonedFinishes
    \/ ActReturn

Spec == Init /\ [][Next]_vars

-----------------------------------------------------------------------------
(* plan, get_execution_summary and validate_plan called on one orchestrator,
   and act called with the plan that plan() returned *)

\* the goal of the worked example
\* "Run ETL pipeline for sales data"
ExampleGoal ==
    <<82, 117, 110, 32, 69, 84, 76, 32, 112, 105, 112, 101, 108, 105, 110, 101,
      32, 102, 111, 114, 32, 115, 97, 108, 101, 115, 32, 100, 97, 116, 97>>

\* "Deploy agent"
DeployGoal == <<68, 101, 112, 108, 111, 121, 32, 97, 103, 101, 110, 116>>

\* goals whose plans are run
TaskGoals == {ExampleGoal, DeployGoal}

\* words goals are built from: keywords in either case, a keyword inside a
\* longer word ("retrain", "magenta"), and a word with no keyword:
\* "PIPELINE" written with the dotted capital I, whose lower-cased form is
\* two characters longer and holds the combining dot after each i
GoalWords ==
    {<<69, 84, 76>>,
     <<68, 97, 116, 97>>,
     <<114, 101, 116, 114, 97, 105, 110>>,
     <<77, 111, 100, 101, 108>>,
     <<109, 97, 103, 101, 110, 116, 97>>,
     <<80, 304, 80, 69, 76, 304, 78, 69>>}

RECURSIVE JoinWords(_)
JoinWords(ws) ==
    IF ws = <<>> THEN <<>>
    ELSE IF Len(ws) = 1 THEN ws[1]
    ELSE ws[1] \o <<32>> \o JoinWords(Tail(ws))

\* goals handed to plan(): the empty goal, the generated ones, the examples
GoalInputs ==
    {JoinWords(ws) : ws \in SeqsUpTo(GoalWords, MaxGoalWords)} \cup TaskGoals

\* the two readings one call of plan() takes, in seconds since the epoch:
\* the one written into the path and the later one kept as created_at, which
\* may fall in the next second
ClockReadings ==
    LET Times == {1700000000, 1700000001}
    IN  {r \in [path : Times, created : Times] : r.created >= r.path}

\* the readings of the calls of plan() that are followed through a run: the
\* path is written in the first second, created_at in that or the next one
TaskClockReadings == {r \in ClockReadings : r.path = 1700000000}

\* how long a capability of a planned step takes, in seconds
TaskDurations == {0, 400}

\* what the capability of a planned step does when it is done: it returns,
\* or its collaborator refuses the connection
TaskBehaviours(step) ==
    {b \in BehavioursOf(step) :
        \/ b.kind = "return" /\ b.value = ToolReturn(step.tool, step.args, "id_a")
        \/ b.kind = "raise" /\ b.exc.mro[1] = "psycopg.OperationalError"}

\* plan(goal): no await inside, so it runs in one piece; the clock does not
\* go back between two calls
PlanEffect(goal, clock) ==
    /\ IF current_plan = NoCurrentPlan THEN TRUE
       ELSE clock.path >= current_plan.created_at
    /\ current_plan' = Plan(goal, clock)

\* faulty variant: a run in progress goes on with the plan made last
PlanCall_switch(goal, clock) ==
    /\ PlanEffect(goal, clock)
    /\ act_plan' = IF pc \in {"loop", "awaiting"} THEN Plan(goal, clock)
                   ELSE act_plan
    /\ UNCHANGED <<execution_history, pc, step_i, results, running, abandoned,
                   invoked, history_at_call, executed, v_plan, v_result,
                   summary>>
    /\ UNCHANGED aux_vars

\* plan(goal) called on its own
PlanCall(goal, clock) ==
    /\ PlanEffect(goal, clock)
    /\ UNCHANGED <<run_vars, v_plan, v_result, summary>>
    /\ UNCHANGED aux_vars

\* faulty variant: the summary consumes the history
SummaryCall_clear ==
    /\ summary' = get_execution_summary(execution_history)
    /\ execution_history' = <<>>
    /\ UNCHANGED <<pc, act_plan, step_i, results, running, abandoned, invoked,
                   history_at_call, executed, v_plan, v_result, current_plan>>
    /\ UNCHANGED aux_vars

\* get_execution_summary(): synchronous, callable between any two steps
SummaryCall ==
    /\ summary' = get_execution_summary(execution_history)
    /\ UNCHANGED <<run_vars, v_plan, v_result, current_plan>>
    /\ UNCHANGED aux_vars

\* act() is entered with the mapping the last plan() call returned
ActPlanned ==
    /\ current_plan # NoCurrentPlan
    /\ ActEnter(current_plan, MaxTaskExec)

\* validate_plan() called with the mapping the last plan() call returned
ValidatePlanned ==
    /\ current_plan # NoCurrentPlan
    /\ v_plan' = current_plan
    /\ v_result' = IF validate_plan(current_plan) THEN "true" ELSE "false"
    /\ UNCHANGED <<run_vars, current_plan, summary>>
    /\ UNCHANGED aux_vars

NextTask ==
    \/ \E goal \in TaskGoals, clock \in TaskClockReadings : PlanCall(goal, clock)
    \/ ActPlanned
    \/ /\ pc = "loop"
       /\ step_i < Len(act_plan.steps)
       /\ CurrentStep.tool \in TOOL_REGISTRY
       /\ \E d \in TaskDurations, b \in TaskBehaviours(CurrentStep) :
              StepInvoke(d, b)
    \/ CapabilityReturns
    \/ CapabilityRaises
    \/ TimeoutElapses
    \/ AbandonedFinishes
    \/ ActReturn
    \/ SummaryCall
    \/ ValidatePlanned

SpecTask == Init /\ [][NextTask]_vars

\* plan() alone, over all goals
NextPlan == \E goal \in GoalInputs, clock \in ClockReadings : PlanCall(goal, clock)

SpecPlan == Init /\ [][NextPlan]_vars

-----------------------------------------------------------------------------
(* The callers of the orchestrator: OrchestrationEngine.execute_task of the
   CLI (orchestrator/main.py), VoiceOrchestrator.execute_task
   (voice/voice_orchestrator.py) and execute_task_sync of the API
   (api/main.py).  `emitted` lists the lifecycle events of theirs that have
   reached the event sink; the events that are steps of a plan are capability
   invocations of the run and appear in `invoked`. *)

\* tools.py, runs_record_event: the event is stored, or the failure of the
\* database is raised again (lines 87-89)
SinkOutcomes == {"recorded", "raised"}

\* faulty variant: _record_event lets the failure through
CliRecordEvent_raise(outcome) ==
    IF outcome = "raised" THEN "raised" ELSE "returned"

\* main.py, _record_event (lines 123-128): how the call ends for its caller;
\* the except clause logs a warning and the call returns
CliRecordEvent(outcome) ==
    IF outcome = "raised" THEN "returned" ELSE "returned"

\* execute_task(goal, verbose) of an engine, or execute_task_sync of the
\* API, is entered
ExecuteTaskCall(kind, goal, verbose) ==
    /\ caller = NoCaller
    /\ pc = "idle"
    /\ caller' = [kind |-> kind,
                  pc |-> IF kind = "api" THEN "plan" ELSE "start",
                  goal |-> goal, verbose |-> verbose,
                  event |-> "none", sink |-> "none",
                  plan |-> NoCurrentPlan, response |-> [status |-> "none"]]
    /\ UNCHANGED <<run_vars, v_plan, v_result, current_plan, summary,
                   emitted, tasks, orchs, heap, acting>>

\* main.py, line 62: TASK_START is handed to _record_event, outside the try
\* statement; line 126 passes the call to a worker thread and the caller is
\* suspended until that thread is done
CliRecordStart ==
    /\ caller.kind = "cli"
    /\ caller.pc = "start"
    /\ caller' = [caller EXCEPT !.pc = "recording", !.event = "TASK_START",
                                !.sink = "pending"]
    /\ UNCHANGED <<run_vars, v_plan, v_result, current_plan, summary,
                   emitted, tasks, orchs, heap, acting>>

\* voice_orchestrator.py, lines 149-153: VOICE_COMMAND is passed to a worker
\* thread inside the try statement and the caller is suspended
VoiceRecordCommand ==
    /\ caller.kind = "voice"
    /\ caller.pc = "start"
    /\ caller' = [caller EXCEPT !.pc = "recording", !.event = "VOICE_COMMAND",
                                !.sink = "pending"]
    /\ UNCHANGED <<run_vars, v_plan, v_result, current_plan, summary,
                   emitted, tasks, orchs, heap, acting>>

\* tools.py, runs_record_event in the worker thread: the event reaches the
\* sink, which stores it or fails; the caller is still suspended
SinkStores(outcome) ==
    /\ caller.pc = "recording"
    /\ caller.sink = "pending"
    /\ emitted' = Append(emitted, [event_type |-> caller.event,
                                   outcome |-> outcome])
    /\ caller' = [caller EXCEPT !.sink = outcome]
    /\ UNCHANGED <<run_vars, v_plan, v_result, current_plan, summary,
                   tasks, orchs, heap, acting>>

\* main.py: the caller is resumed after the recording it waited for.  After
\* TASK_START it goes on to plan (lines 64-72).  After TASK_COMPLETE it
\* returns the result (lines 105-111); had _record_event raised, lines
\* 114-121 would hand TASK_ERROR to _record_event and, resumed after that,
\* raise again.
CliResume ==
    /\ caller.kind = "cli"
    /\ caller.pc = "recording"
    /\ caller.sink \in SinkOutcomes
    /\ LET ended == CliRecordEvent(caller.sink)
           next == [caller EXCEPT !.event = "none", !.sink = "none"]
       IN  caller' =
             IF caller.event = "TASK_START"
             THEN [next EXCEPT !.pc = IF ended = "raised"
                                      THEN "raised" ELSE "plan"]
             ELSE IF caller.event = "TASK_ERROR"
             THEN [next EXCEPT !.pc = "raised"]
             ELSE IF ended = "raised"
             THEN [caller EXCEPT !.event = "TASK_ERROR", !.sink = "pending"]
             ELSE [next EXCEPT
                     !.pc = "done",
                     !.response = [status |-> "success",
                                   goal |-> caller.goal,
                                   plan |-> Some(caller.plan),
                                   results |-> Some(results)]]
    /\ UNCHANGED <<run_vars, v_plan, v_result, current_plan, summary,
                   emitted, tasks, orchs, heap, acting>>

\* voice_orchestrator.py: the caller is resumed after the recording it waited
\* for.  A failure of the sink is raised in the caller and taken by `except
\* Exception` (lines 180-187), which returns the error response with str(e);
\* otherwise the caller goes on to plan (line 156) after VOICE_COMMAND and
\* returns the success response (lines 172-178) after VOICE_COMPLETE.
VoiceResume ==
    /\ caller.kind = "voice"
    /\ caller.pc = "recording"
    /\ caller.sink \in SinkOutcomes
    /\ LET next == [caller EXCEPT !.event = "none", !.sink = "none"]
       IN  caller' =
             IF caller.sink = "raised"
             THEN [next EXCEPT
                     !.pc = "done",
                     !.response = [status |-> "error", goal |-> caller.goal,
                                   error |-> "connection refused"]]
             ELSE IF caller.event = "VOICE_COMMAND"
             THEN [next EXCEPT !.pc = "plan"]
             ELSE [next EXCEPT
                     !.pc = "done",
                     !.response = [status |-> "success", goal |-> caller.goal,
                                   steps_completed |-> Len(results),
                                   plan |-> IF caller.verbose
                                            THEN Some(caller.plan) ELSE None]]
    /\ UNCHANGED <<run_vars, v_plan, v_result, current_plan, summary,
                   emitted, tasks, orchs, heap, acting>>

\* plan = await self.orchestrator.plan(goal)
\* (main.py:72, voice_orchestrator.py:156, api/main.py:159)
EnginePlan(clock) ==
    /\ caller.pc = "plan"
    /\ PlanEffect(caller.goal, clock)
    /\ caller' = [caller EXCEPT !.pc = "act", !.plan = Plan(caller.goal, clock)]
    /\ UNCHANGED <<run_vars, v_plan, v_result, summary,
                   emitted, tasks, orchs, heap, acting>>

\* the plan is run: by act (voice_orchestrator.py:159, api/main.py:160) or by
\* the CLI engine's own loop over plan["steps"] (main.py:85-89)
EngineAct ==
    /\ caller.pc = "act"
    /\ pc = "idle"
    /\ ActEnter(caller.plan, MaxTaskExec)

\* main.py, lines 95-103: the loop over the steps is through and
\* TASK_COMPLETE is handed to _record_event; the caller is suspended
CliRecordComplete ==
    /\ caller.kind = "cli"
    /\ caller.pc = "act"
    /\ pc = "returned"
    /\ caller' = [caller EXCEPT !.pc = "recording", !.event = "TASK_COMPLETE",
                                !.sink = "pending"]
    /\ UNCHANGED <<run_vars, v_plan, v_result, current_plan, summary,
                   emitted, tasks, orchs, heap, acting>>

\* voice_orchestrator.py, lines 162-170: act has returned and VOICE_COMPLETE
\* is passed to a worker thread; the caller is suspended
VoiceRecordComplete ==
    /\ caller.kind = "voice"
    /\ caller.pc = "act"
    /\ pc = "returned"
    /\ caller' = [caller EXCEPT !.pc = "recording", !.event = "VOICE_COMPLETE",
                                !.sink = "pending"]
    /\ UNCHANGED <<run_vars, v_plan, v_result, current_plan, summary,
                   emitted, tasks, orchs, heap, acting>>

\* api/main.py, lines 162-170
ApiFinish ==
    /\ caller.kind = "api"
    /\ caller.pc = "act"
    /\ pc = "returned"
    /\ caller' = [caller EXCEPT
                    !.pc = "done",
                    !.response = [status |-> "success",
                                  goal |-> caller.goal,
                                  results |-> IF caller.verbose
                                              THEN Some(results) ELSE None,
                                  steps_executed |-> Len(results)]]
    /\ UNCHANGED <<run_vars, v_plan, v_result, current_plan, summary,
                   emitted, tasks, orchs, heap, acting>>

\* a step of the plan being run is started
TaskStepInvoke ==
    /\ pc = "loop"
    /\ step_i < Len(act_plan.steps)
    /\ CurrentStep.tool \in TOOL_REGISTRY
    /\ \E d \in TaskDurations, b \in TaskBehaviours(CurrentStep) :
           StepInvoke(d, b)

NextEngine ==
    \/ \E kind \in {"cli", "voice", "api"}, goal \in TaskGoals,
          verbose \in BOOLEAN :
           ExecuteTaskCall(kind, goal, verbose)
    \/ CliRecordStart
    \/ VoiceRecordCommand
    \/ \E outcome \in SinkOutcomes : SinkStores(outcome)
    \/ CliResume
    \/ VoiceResume
    \/ \E clock \in ClockReadings : EnginePlan(clock)
    \/ EngineAct
    \/ TaskStepInvoke
    \/ CapabilityReturns
    \/ CapabilityRaises
    \/ TimeoutElapses
    \/ AbandonedFinishes
    \/ ActReturn
    \/ CliRecordComplete
    \/ VoiceRecordComplete
    \/ ApiFinish

SpecEngine == Init /\ [][NextEngine]_vars

-----------------------------------------------------------------------------
(* Several act() runs in flight on one orchestrator: the API serves every
   request, and every background task, with the one module-level Orchestrator
   (api/main.py).  The runs are coroutines of one event loop: they are
   interleaved at their awaits only, and each one's code between two awaits,
   the append to the shared history included, runs in one piece.  The
   capabilities run in worker threads and touch nothing of the orchestrator. *)

\* the goal of request k: the two requests ask for different workflows, so
\* that the tool and the arguments of a history entry tell which run
\* appended it
ConcGoal(k) == IF k = "t1" THEN ExampleGoal ELSE DeployGoal

ConcCurrentStep(k) == tasks[k].plan.steps[tasks[k].step_i + 1]

\* execute_task_sync (api/main.py, lines 159-160) for request k: plan(goal)
\* on the shared orchestrator, then act() entered with the mapping it
\* returned; nothing is awaited in between
ConcStart(k, clock) ==
    /\ tasks[k].pc = "idle"
    /\ PlanEffect(ConcGoal(k), clock)
    /\ tasks' = [tasks EXCEPT ![k] =
                    [pc |-> "loop", plan |-> Plan(ConcGoal(k), clock),
                     step_i |-> 0, results |-> <<>>, running |-> NoCall]]
    /\ UNCHANGED <<run_vars, v_plan, v_result, summary,
                   caller, emitted, orchs, heap, acting>>

\* execute_step of task k up to its await. In these runs the event sink
\* returns at once, only the job and the deployment may take longer than
\* their timeout, and every capability but the event sink may be refused
\* its connection.
ConcInvoke(k, d, b) ==
    /\ tasks[k].pc = "loop"
    /\ tasks[k].step_i < Len(tasks[k].plan.steps)
    /\ b \in TaskBehaviours(ConcCurrentStep(k))
    /\ ConcCurrentStep(k).tool = "runs_record_event" => b.kind = "return"
    /\ ConcCurrentStep(k).tool \notin {"etl_run_job", "deploy_agent"} => d = 0
    /\ tasks' = [tasks EXCEPT
                    ![k].pc = "awaiting",
                    ![k].running = [kind |-> "call",
                                    index |-> tasks[k].step_i,
                                    step |-> ConcCurrentStep(k),
                                    duration |-> d, behaviour |-> b]]
    /\ UNCHANGED <<run_vars, v_plan, v_result, current_plan, summary,
                   caller, emitted, orchs, heap, acting>>

\* the capability of task k returns before the timer fires
ConcReturns(k) ==
    /\ tasks[k].pc = "awaiting"
    /\ tasks[k].running.behaviour.kind = "return"
    /\ tasks[k].running.duration <= tasks[k].running.step.timeout
    /\ LET step == tasks[k].running.step
           result == tasks[k].running.behaviour.value
       IN /\ execution_history' =
                 HistoryAfterReturn(execution_history, step, result)
          /\ tasks' = [tasks EXCEPT
                          ![k].results = AppendResult(@, step, result),
                          ![k].pc = PcAfterStep(step, result),
                          ![k].step_i = @ + 1,
                          ![k].running = NoCall]
    /\ UNCHANGED <<pc, act_plan, step_i, results, running, abandoned, invoked,
                   history_at_call, executed, v_plan, v_result, current_plan,
                   summary, caller, emitted, orchs, heap, acting>>

\* the capability of task k raises before the timer fires
ConcRaises(k) ==
    /\ tasks[k].pc = "awaiting"
    /\ tasks[k].running.behaviour.kind = "raise"
    /\ tasks[k].running.duration <= tasks[k].running.step.timeout
    /\ LET step == tasks[k].running.step
           e == tasks[k].running.behaviour.exc
       IN /\ execution_history' = HistoryAfterRaise(execution_history, step, e)
          /\ tasks' = IF ExceptClause(e) = "propagate"
                      THEN [tasks EXCEPT ![k].pc = "raised",
                                         ![k].running = NoCall]
                      ELSE [tasks EXCEPT
                              ![k].results =
                                  AppendResult(@, step,
                                               OutcomeAfterRaise(step, e)),
                              ![k].pc =
                                  PcAfterStep(step, OutcomeAfterRaise(step, e)),
                              ![k].step_i = @ + 1,
                              ![k].running = NoCall]
    /\ UNCHANGED <<pc, act_plan, step_i, results, running, abandoned, invoked,
                   history_at_call, executed, v_plan, v_result, current_plan,
                   summary, caller, emitted, orchs, heap, acting>>

\* the timer of task k fires first
ConcTimeout(k) ==
    /\ tasks[k].pc = "awaiting"
    /\ tasks[k].running.duration >= tasks[k].running.step.timeout
    /\ LET step == tasks[k].running.step IN
          tasks' = [tasks EXCEPT
                      ![k].results = AppendResult(@, step, TimeoutOutcome(step)),
                      ![k].pc = PcAfterStep(step, TimeoutOutcome(step)),
                      ![k].step_i = @ + 1,
                      ![k].running = NoCall]
    /\ abandoned' = abandoned + 1
    /\ UNCHANGED <<execution_history, pc, act_plan, step_i, results, running,
                   invoked, history_at_call, executed, v_plan, v_result,
                   current_plan, summary, caller, emitted, orchs, heap, acting>>

\* the for loop of task k is exhausted
ConcReturn(k) ==
    /\ tasks[k].pc = "loop"
    /\ tasks[k].step_i = Len(tasks[k].plan.steps)
    /\ tasks' = [tasks EXCEPT ![k].pc = "returned"]
    /\ UNCHANGED <<run_vars, v_plan, v_result, current_plan, summary,
                   caller, emitted, orchs, heap, acting>>

NextConcurrent ==
    \/ \E k \in TaskIds, clock \in TaskClockReadings : ConcStart(k, clock)
    \/ \E k \in TaskIds :
           /\ tasks[k].pc = "loop"
           /\ tasks[k].step_i < Len(tasks[k].plan.steps)
           /\ \E d \in TaskDurations, b \in TaskBehaviours(ConcCurrentStep(k)) :
                  ConcInvoke(k, d, b)
    \/ \E k \in TaskIds : ConcReturns(k)
    \/ \E k \in TaskIds : ConcRaises(k)
    \/ \E k \in TaskIds : ConcTimeout(k)
    \/ \E k \in TaskIds : ConcReturn(k)
    \/ AbandonedFinishes

SpecConcurrent == Init /\ [][NextConcurrent]_vars

-----------------------------------------------------------------------------
(* Several Orchestrator objects in one process: the CLI engine, the voice
   orchestrator and the API each construct their own (main.py:54,
   voice_orchestrator.py:20, api/main.py:52).  Python lists are objects on a
   heap and an attribute holds a reference to one: `heap` is the sequence of
   the list objects allocated so far, and an instance's execution_history is
   an index into it.  Two instances share a history exactly when they hold
   the same reference. *)

InstanceIds == {"a", "b"}

\* faulty variant: every instance after the first is handed the first list,
\* as with a list that is a class attribute or a default argument
NewList_shared(h) ==
    IF Len(h) = 0 THEN [ref |-> 1, heap |-> Append(h, <<>>)]
    ELSE [ref |-> 1, heap |-> h]

\* line 50: the display `[]` allocates a fresh, empty list object
NewList(h) == [ref |-> Len(h) + 1, heap |-> Append(h, <<>>)]

\* the step executed on the instances: one that can succeed, fail and time out
InstanceSteps == {TaskStep("etl_run_job", ArgsFor("etl_run_job"), <<>>, 1, 0)}

\* the list an instance's execution_history refers to
HistoryOf(os, h, i) == h[os[i].execution_history]

\* lines 46-50: Orchestrator()
NewOrchestrator(i) ==
    /\ i \notin DOMAIN orchs
    /\ LET new == NewList(heap) IN
          /\ heap' = new.heap
          /\ orchs' = [x \in DOMAIN orchs \cup {i} |->
                          IF x = i
                          THEN [current_plan |-> NoCurrentPlan,
                                execution_history |-> new.ref,
                                running |-> NoCall]
                          ELSE orchs[x]]
    /\ acting' = i
    /\ UNCHANGED <<run_vars, v_plan, v_result, current_plan, summary,
                   caller, emitted, tasks>>

\* lines 52-160: plan(goal) on instance i
InstancePlan(i, goal, clock) ==
    /\ i \in DOMAIN orchs
    /\ orchs' = [orchs EXCEPT ![i].current_plan = Plan(goal, clock)]
    /\ acting' = i
    /\ UNCHANGED <<run_vars, v_plan, v_result, current_plan, summary,
                   caller, emitted, tasks, heap>>

\* lines 162-177: execute_step(step) on instance i, up to its await
InstanceInvoke(i, step, d, b) ==
    /\ i \in DOMAIN orchs
    /\ orchs[i].running = NoCall
    /\ Len(HistoryOf(orchs, heap, i)) < MaxInstanceExec
    /\ b \in TaskBehaviours(step)
    /\ orchs' = [orchs EXCEPT ![i].running =
                    [kind |-> "call", index |-> 0, step |-> step,
                     duration |-> d, behaviour |-> b]]
    /\ acting' = i
    /\ UNCHANGED <<run_vars, v_plan, v_result, current_plan, summary,
                   caller, emitted, tasks, heap>>

\* lines 179-187: the capability returned in time
InstanceReturns(i) ==
    /\ i \in DOMAIN orchs
    /\ orchs[i].running # NoCall
    /\ orchs[i].running.behaviour.kind = "return"
    /\ orchs[i].running.duration <= orchs[i].running.step.timeout
    /\ heap' = [heap EXCEPT ![orchs[i].execution_history] =
                   HistoryAfterReturn(@, orchs[i].running.step,
                                      orchs[i].running.behaviour.value)]
    /\ orchs' = [orchs EXCEPT ![i].running = NoCall]
    /\ acting' = i
    /\ UNCHANGED <<run_vars, v_plan, v_result, current_plan, summary,
                   caller, emitted, tasks>>

\* lines 197-214: the capability raised in time
InstanceRaises(i) ==
    /\ i \in DOMAIN orchs
    /\ orchs[i].running # NoCall
    /\ orchs[i].running.behaviour.kind = "raise"
    /\ orchs[i].running.duration <= orchs[i].running.step.timeout
    /\ heap' = [heap EXCEPT ![orchs[i].execution_history] =
                   HistoryAfterRaise(@, orchs[i].running.step,
                                     orchs[i].running.behaviour.exc)]
    /\ orchs' = [orchs EXCEPT ![i].running = NoCall]
    /\ acting' = i
    /\ UNCHANGED <<run_vars, v_plan, v_result, current_plan, summary,
                   caller, emitted, tasks>>

\* lines 189-195: the timer fired first
InstanceTimeout(i) ==
    /\ i \in DOMAIN orchs
    /\ orchs[i].running # NoCall
    /\ orchs[i].running.duration >= orchs[i].running.step.timeout
    /\ orchs' = [orchs EXCEPT ![i].running = NoCall]
    /\ acting' = i
    /\ UNCHANGED <<run_vars, v_plan, v_result, current_plan, summary,
                   caller, emitted, tasks, heap>>

NextInstances ==
    \/ \E i \in InstanceIds : NewOrchestrator(i)
    \/ \E i \in InstanceIds, clock \in TaskClockReadings : InstancePlan(i, ExampleGoal, clock)
    \/ \E i \in InstanceIds, step \in InstanceSteps, d \in Durations,
          b \in UNION {TaskBehaviours(st) : st \in InstanceSteps} :
           InstanceInvoke(i, step, d, b)
    \/ \E i \in InstanceIds : InstanceReturns(i)
    \/ \E i \in InstanceIds : InstanceRaises(i)
    \/ \E i \in InstanceIds : InstanceTimeout(i)

SpecInstances == Init /\ [][NextInstances]_vars

-----------------------------------------------------------------------------
(* The two drivers side by side: Orchestrator.act (orchestrator.py:216-231)
   and the loop of OrchestrationEngine.execute_task (main.py:85-93), each on
   an orchestrator of its own, given the same plan and capabilities that
   behave the same way: `script` says, for every step of the plan, how long
   its capability works and how it ends.  Task "t1" is the act run and task
   "t2" the CLI engine's loop. *)

DriverOf(k) == IF k = "t1" THEN "act" ELSE "cli"

\* the plans the drivers are given: steps that succeed, fail, time out, and
\* one naming a tool the registry does not have
DriverPlans ==
    {[steps |-> <<TaskStep("runs_record_event", ArgsFor("runs_record_event"),
                           <<>>, DefaultTimeout, DefaultRetryCount),
                  TaskStep("etl_run_job", ArgsFor("etl_run_job"), <<0>>, 1, 0),
                  TaskStep("no_such_tool", ArgsFor("no_such_tool"), <<>>,
                           DefaultTimeout, DefaultRetryCount),
                  TaskStep("etl_run_job", ArgsFor("etl_run_job"), <<0>>,
                           DefaultTimeout, DefaultRetryCount)>>],
     [steps |-> <<TaskStep("etl_run_job", ArgsFor("etl_run_job"), <<>>, 1, 0),
                  TaskStep("runs_record_event", ArgsFor("runs_record_event"),
                           <<0>>, DefaultTimeout, DefaultRetryCount)>>]}

\* what the capability of a step may be scripted to do; nothing for a tool
\* that cannot be looked up
ScriptEntries(step) ==
    IF step.tool \in TOOL_REGISTRY
    THEN {[duration |-> d, behaviour |-> b] :
              d \in Durations, b \in TaskBehaviours(step)}
    ELSE {[duration |-> 0, behaviour |-> NoCall]}

ScriptsFor(plan) ==
    {s \in [1..Len(plan.steps) ->
               UNION {ScriptEntries(plan.steps[i]) : i \in 1..Len(plan.steps)}] :
        \A i \in 1..Len(plan.steps) : s[i] \in ScriptEntries(plan.steps[i])}

\* the append to results of driver k
DriverAppend(k, res, step, result) ==
    IF DriverOf(k) = "cli" THEN CliAppendResult(res, result)
    ELSE AppendResult(res, step, result)

\* where driver k goes after a step
DriverPcAfterStep(k, step, result) ==
    IF DriverOf(k) = "cli" THEN CliPcAfterStep(step, result)
    ELSE PcAfterStep(step, result)

DriverStep(k) == tasks[k].plan.steps[tasks[k].step_i + 1]

DriverScript(k) == tasks[k].script[tasks[k].step_i + 1]

\* both drivers are entered, with the same plan and the same script
DriversStart(plan, script) ==
    /\ \A k \in TaskIds : tasks[k].pc = "idle"
    /\ tasks' = [k \in TaskIds |->
                    [pc |-> "loop", plan |-> plan, script |-> script,
                     step_i |-> 0, results |-> <<>>, history |-> <<>>,
                     invoked |-> <<>>]]
    /\ UNCHANGED <<run_vars, v_plan, v_result, current_plan, summary,
                   caller, emitted, orchs, heap, acting>>

\* execute_step of driver k up to its await
DriverInvoke(k) ==
    /\ tasks[k].pc = "loop"
    /\ tasks[k].step_i < Len(tasks[k].plan.steps)
    /\ DriverStep(k).tool \in TOOL_REGISTRY
    /\ tasks' = [tasks EXCEPT
                    ![k].pc = "awaiting",
                    ![k].invoked = Append(@, [index |-> tasks[k].step_i,
                                              tool |-> DriverStep(k).tool,
                                              args |-> DriverStep(k).args])]
    /\ UNCHANGED <<run_vars, v_plan, v_result, current_plan, summary,
                   caller, emitted, orchs, heap, acting>>

\* execute_step of driver k for a tool get_tool does not know
DriverUnknownTool(k) ==
    /\ tasks[k].pc = "loop"
    /\ tasks[k].step_i < Len(tasks[k].plan.steps)
    /\ DriverStep(k).tool \notin TOOL_REGISTRY
    /\ LET step == DriverStep(k)
           e == UnknownToolError(step.tool)
       IN tasks' = [tasks EXCEPT
                      ![k].history = HistoryAfterRaise(@, step, e),
                      ![k].results =
                          DriverAppend(k, @, step, OutcomeAfterRaise(step, e)),
                      ![k].pc =
                          DriverPcAfterStep(k, step, OutcomeAfterRaise(step, e)),
                      ![k].step_i = @ + 1]
    /\ UNCHANGED <<run_vars, v_plan, v_result, current_plan, summary,
                   caller, emitted, orchs, heap, acting>>

\* the capability returns before the timer fires
DriverReturns(k) ==
    /\ tasks[k].pc = "awaiting"
    /\ DriverScript(k).behaviour.kind = "return"
    /\ DriverScript(k).duration <= DriverStep(k).timeout
    /\ LET step == DriverStep(k)
           result == DriverScript(k).behaviour.value
       IN tasks' = [tasks EXCEPT
                      ![k].history = HistoryAfterReturn(@, step, result),
                      ![k].results = DriverAppend(k, @, step, result),
                      ![k].pc = DriverPcAfterStep(k, step, result),
                      ![k].step_i = @ + 1]
    /\ UNCHANGED <<run_vars, v_plan, v_result, current_plan, summary,
                   caller, emitted, orchs, heap, acting>>

\* the capability raises before the timer fires
DriverRaises(k) ==
    /\ tasks[k].pc = "awaiting"
    /\ DriverScript(k).behaviour.kind = "raise"
    /\ DriverScript(k).duration <= DriverStep(k).timeout
    /\ LET step == DriverStep(k)
           e == DriverScript(k).behaviour.exc
       IN tasks' = [tasks EXCEPT
                      ![k].history = HistoryAfterRaise(@, step, e),
                      ![k].results =
                          DriverAppend(k, @, step, OutcomeAfterRaise(step, e)),
                      ![k].pc =
                          DriverPcAfterStep(k, step, OutcomeAfterRaise(step, e)),
                      ![k].step_i = @ + 1]
    /\ UNCHANGED <<run_vars, v_plan, v_result, current_plan, summary,
                   caller, emitted, orchs, heap, acting>>

\* the timer fires first
DriverTimeout(k) ==
    /\ tasks[k].pc = "awaiting"
    /\ DriverScript(k).duration >= DriverStep(k).timeout
    /\ LET step == DriverStep(k) IN
          tasks' = [tasks EXCEPT
                      ![k].results =
                          DriverAppend(k, @, step, TimeoutOutcome(step)),
                      ![k].pc =
                          DriverPcAfterStep(k, step, TimeoutOutcome(step)),
                      ![k].step_i = @ + 1]
    /\ UNCHANGED <<run_vars, v_plan, v_result, current_plan, summary,
                   caller, emitted, orchs, heap, acting>>

\* the loop of driver k is exhausted
DriverReturn(k) ==
    /\ tasks[k].pc = "loop"
    /\ tasks[k].step_i = Len(tasks[k].plan.steps)
    /\ tasks' = [tasks EXCEPT ![k].pc = "returned"]
    /\ UNCHANGED <<run_vars, v_plan, v_result, current_plan, summary,
                   caller, emitted, orchs, heap, acting>>

NextDrivers ==
    \/ \E plan \in DriverPlans : \E script \in ScriptsFor(plan) :
           DriversStart(plan, script)
    \/ \E k \in TaskIds : DriverInvoke(k)
    \/ \E k \in TaskIds : DriverUnknownTool(k)
    \/ \E k \in TaskIds : DriverReturns(k)
    \/ \E k \in TaskIds : DriverRaises(k)
    \/ \E k \in TaskIds : DriverTimeout(k)
    \/ \E k \in TaskIds : DriverReturn(k)

SpecDrivers == Init /\ [][NextDrivers]_vars

-----------------------------------------------------------------------------
(* Plans whose steps carry any integer as their timeout: TaskStep declares
   `timeout: int = Field(default=300, ...)` with no lower limit *)

TimeoutStep(t) ==
    TaskStep("etl_run_job", ArgsFor("etl_run_job"), <<>>, t, DefaultRetryCount)

\* one-step plans with a negative, a zero, a short and the default timeout,
\* and two-step plans in which a step with a timeout of zero comes before or
\* after a step that can run
TimeoutPlans ==
    {[steps |-> <<TimeoutStep(t)>>] : t \in {-1, 0, 1, DefaultTimeout}}
    \cup {[steps |-> <<TimeoutStep(0), TimeoutStep(1)>>],
          [steps |-> <<TimeoutStep(DefaultTimeout), TimeoutStep(0)>>]}

\* validate_plan(plan), called before the plan is handed to act
ValidateBeforeAct(plan) ==
    /\ pc \in {"idle", "returned"}
    /\ v_plan' = plan
    /\ v_result' = IF validate_plan(plan) THEN "true" ELSE "false"
    /\ UNCHANGED <<run_vars, current_plan, summary>>
    /\ UNCHANGED aux_vars

\* act(plan) with the plan validate_plan was last called with
ActValidated ==
    /\ v_result # "unset"
    /\ ActEnter(v_plan, MaxExec)

NextTimeout ==
    \/ \E plan \in TimeoutPlans : ValidateBeforeAct(plan)
    \/ ActValidated
    \/ TaskStepInvoke
    \/ StepTimeoutNotPositive
    \/ CancelledBeforeStart
    \/ CapabilityReturns
    \/ CapabilityRaises
    \/ TimeoutElapses
    \/ AbandonedFinishes
    \/ ActReturn

SpecTimeout == Init /\ [][NextTimeout]_vars

-----------------------------------------------------------------------------
(* validate_plan called with any mapping, between the steps of a planned run *)

\* steps of hand-written plans
StepNoDeps == [tool |-> "etl_run_job", args |-> ArgsFor("etl_run_job")]

StepNoTool == [args |-> ArgsFor("etl_run_job"), depends_on |-> <<>>]

StepStrDep ==
    [tool |-> "etl_run_job", args |-> ArgsFor("etl_run_job"),
     depends_on |-> <<PyStr("0")>>]

StepDepZero ==
    [tool |-> "etl_run_job", args |-> ArgsFor("etl_run_job"),
     depends_on |-> <<PyInt(0)>>]

StepNoSuchTool ==
    [tool |-> "no_such_tool", args |-> ArgsFor("no_such_tool"),
     depends_on |-> <<>>]

\* the mappings validate_plan is called with: one without the key "steps",
\* plans with a step that has no tool or a dependency that is a string, alone
\* or after a step that is rejected first, and well-formed plans
AnyPlanInputs ==
    {[goal |-> "no steps"],
     [steps |-> <<>>],
     [steps |-> <<StepNoDeps>>],
     [steps |-> <<StepNoTool>>],
     [steps |-> <<StepDepZero>>],
     [steps |-> <<StepNoDeps, StepDepZero>>],
     [steps |-> <<StepNoDeps, StepStrDep>>],
     [steps |-> <<StepNoSuchTool, StepNoTool>>],
     [steps |-> <<StepDepZero, StepStrDep>>]}

\* validate_plan(plan)
ValidateAnyCall(plan) ==
    /\ v_plan' = plan
    /\ v_result' = validate_plan_any(plan)
    /\ UNCHANGED <<run_vars, current_plan, summary>>
    /\ UNCHANGED aux_vars

\* validate_plan called with the mapping the last plan() call returned
ValidateCurrentPlan ==
    /\ current_plan # NoCurrentPlan
    /\ ValidateAnyCall(PyPlan(current_plan))

NextAnyPlan ==
    \/ \E clock \in TaskClockReadings : PlanCall(ExampleGoal, clock)
    \/ ActPlanned
    \/ TaskStepInvoke
    \/ CapabilityReturns
    \/ CapabilityRaises
    \/ TimeoutElapses
    \/ AbandonedFinishes
    \/ ActReturn
    \/ \E plan \in AnyPlanInputs : ValidateAnyCall(plan)
    \/ ValidateCurrentPlan

SpecAnyPlan == Init /\ [][NextAnyPlan]_vars

-----------------------------------------------------------------------------
(* validate_plan applied to a plan: a pure function of its argument *)

InitValidate ==
    /\ execution_history = <<>>
    /\ pc = "idle"
    /\ act_plan = NoPlan
    /\ step_i = 0
    /\ results = <<>>
    /\ running = NoCall
    /\ abandoned = 0
    /\ invoked = <<>>
    /\ history_at_call = <<>>
    /\ executed = 0
    /\ v_plan \in ValidateInputs
    /\ v_result = "unset"
    /\ current_plan = NoCurrentPlan
    /\ summary = NoSummary
    /\ caller = NoCaller
    /\ emitted = <<>>
    /\ tasks = [k \in TaskIds |-> IdleTask]
    /\ orchs = <<>>
    /\ heap = <<>>
    /\ acting = "none"

ValidateCall ==
    /\ v_result = "unset"
    /\ v_result' = IF validate_plan(v_plan) THEN "true" ELSE "false"
    /\ UNCHANGED <<v_plan, run_vars, current_plan, summary>>
    /\ UNCHANGED aux_vars

NextValidate == ValidateCall

SpecValidate == InitValidate /\ [][NextValidate]_vars

-----------------------------------------------------------------------------
(* Properties *)

Steps == act_plan.steps

AllToolsRegistered(plan) ==
    \A k \in 1..Len(plan.steps) : plan.steps[k].tool \in TOOL_REGISTRY

\* every dependency of the step at 0-based index i is smaller than i
AllDepsBackward(plan) ==
    \A k \in 1..Len(plan.steps) :
        \A j \in 1..Len(plan.steps[k].depends_on) :
            plan.steps[k].depends_on[j] < k - 1

\* every dependency names an existing, strictly earlier step
AllDepsEarlierSteps(plan) ==
    \A k \in 1..Len(plan.steps) :
        \A j \in 1..Len(plan.steps[k].depends_on) :
            /\ 0 <= plan.steps[k].depends_on[j]
            /\ plan.steps[k].depends_on[j] < k - 1

\* execute_step returns in this transition
StepResolves == pc = "awaiting" /\ pc' # "awaiting"

\* C1: a plan that fails validation is rejected before any of its steps
\* executes: while or after act() runs on it, no capability has been invoked
\* and the history is as it was when act() was called.
C1_InvalidPlanNeverExecuted ==
    (pc # "idle" /\ ~validate_plan(act_plan)) =>
        (invoked = <<>> /\ execution_history = history_at_call)

\* C2: validate_plan returns true exactly when every tool is registered and
\* every dependency index of every step is smaller than the step's own index.
C2_ValidateIffRegisteredAndBackward ==
    v_result # "unset" =>
        (v_result = "true" <=>
            (AllToolsRegistered(v_plan) /\ AllDepsBackward(v_plan)))

\* C2 witness: a three-step plan over registered tools, rejected because
\* step[2] depends on itself.
C2_Witness ==
    /\ v_result = "false"
    /\ Len(v_plan.steps) = 3
    /\ AllToolsRegistered(v_plan)
    /\ v_plan.steps[1].depends_on = <<>>
    /\ v_plan.steps[2].depends_on = <<0>>
    /\ v_plan.steps[3].depends_on = <<2>>

\* C3: an accepted plan has only dependency indices d with 0 <= d < i, so a
\* negative index is rejected.
C3_AcceptedDepsNameEarlierSteps ==
    v_result = "true" => AllDepsEarlierSteps(v_plan)

\* C4: act() never raises, can always take its next step until it returns,
\* and returns one result per step; every step with a registered tool has
\* had its capability invoked, whatever the earlier steps ended in.
C4_ActAttemptsAllSteps ==
    /\ pc # "raised"
    /\ (pc \in {"loop", "awaiting"} => ENABLED ActStep)
    /\ (pc = "returned" =>
          /\ Len(results) = Len(Steps)
          /\ \A k \in 1..Len(Steps) :
                Steps[k].tool \in TOOL_REGISTRY =>
                    \E j \in 1..Len(invoked) : invoked[j].index = k - 1)

\* C4 witness: a run that returned two results although its first step
\* ended in an error and its second in a timeout.
C4_Witness ==
    /\ pc = "returned"
    /\ Len(results) = 2
    /\ results[1].result.status = "error"
    /\ results[2].result.status = "timeout"
    /\ Len(invoked) = 2

\* C5: results are in plan order, one per step, and a capability is invoked
\* only when the outcomes of all earlier steps are in results.
C5_ResultsFollowPlanOrder ==
    /\ Len(results) <= Len(Steps)
    /\ \A k \in 1..Len(results) : results[k].tool = Steps[k].tool
    /\ \A j, k \in 1..Len(invoked) :
          j < k => invoked[j].index < invoked[k].index
    /\ \A k \in 1..Len(invoked) : invoked[k].tool = Steps[invoked[k].index + 1].tool
    /\ (pc = "awaiting" =>
          /\ running.index = Len(results)
          /\ invoked[Len(invoked)].index = Len(results))
    /\ (pc # "awaiting" =>
          \A k \in 1..Len(invoked) : invoked[k].index < Len(results))

\* C5 witness: a returned run of two steps with different tools, both invoked.
C5_Witness ==
    /\ pc = "returned"
    /\ Len(results) = 2
    /\ Steps[1].tool # Steps[2].tool
    /\ Len(invoked) = 2

\* C6: when the capability returns within the timeout, execute_step returns
\* its mapping and appends one success entry with the step's tool and args
\* and that mapping.
C6_SuccessReturnsAndRecords ==
    [][(/\ StepResolves
        /\ running.behaviour.kind = "return"
        /\ running.duration < running.step.timeout)
       =>
       (/\ results' = Append(results,
                             [tool |-> running.step.tool,
                              result |-> running.behaviour.value])
        /\ execution_history' =
              Append(execution_history,
                     [tool |-> running.step.tool,
                      args |-> running.step.args,
                      result |-> running.behaviour.value,
                      status |-> "success"]))]_vars

\* C6 witness: the last step ended in the capability's mapping and the last
\* history entry records it.
C6_Witness ==
    /\ pc = "loop"
    /\ Len(results) = 2
    /\ results[2].result = ToolReturn("etl_run_job", ArgsFor("etl_run_job"), "id_b")
    /\ Len(execution_history) = Len(history_at_call) + 2
    /\ execution_history[Len(execution_history)].status = "success"
    /\ execution_history[Len(execution_history)].result = results[2].result

\* C7: when the timeout elapses first, execute_step returns the timeout
\* outcome naming the tool and the timeout, act() goes on with the loop, and
\* a returned run has a result for every step.
C7_TimeoutOutcomeAndContinue ==
    /\ [][(StepResolves /\ running.duration > running.step.timeout)
          =>
          (/\ pc' = "loop"
           /\ step_i' = step_i + 1
           /\ results' =
                Append(results,
                       [tool |-> running.step.tool,
                        result |->
                          [status |-> "timeout",
                           tool |-> running.step.tool,
                           error |-> "Step timed out after "
                                     \o ToString(running.step.timeout)
                                     \o " seconds"]]))]_vars
    /\ [](pc = "returned" => Len(results) = Len(Steps))

\* C7 witness: the first step timed out (its thread is still running) and
\* the second step was invoked and resolved.
C7_Witness ==
    /\ pc = "returned"
    /\ Len(results) = 2
    /\ results[1].result.status = "timeout"
    /\ results[1].result.error = "Step timed out after 1 seconds"
    /\ abandoned = 1
    /\ Len(invoked) = 2
    /\ results[2].result.status = "success"

\* C8: when the capability raises any error before the timeout, execute_step
\* returns an error outcome with the stringified cause and appends one
\* failed entry with the step's tool and args and that string.
C8_RaiseBecomesErrorAndFailedEntry ==
    [][(/\ StepResolves
        /\ running.behaviour.kind = "raise"
        /\ running.duration < running.step.timeout)
       =>
       (/\ pc' = "loop"
        /\ results' = Append(results,
                             [tool |-> running.step.tool,
                              result |-> [status |-> "error",
                                          tool |-> running.step.tool,
                                          error |-> running.behaviour.exc.msg]])
        /\ execution_history' =
              Append(execution_history,
                     [tool |-> running.step.tool,
                      args |-> running.step.args,
                      error |-> running.behaviour.exc.msg,
                      status |-> "failed"]))]_vars

\* C9: every execute_step call grows the history by one entry, so a returned
\* act() left the history longer by the number of steps of its plan.
C9_HistoryGrowsByOnePerStep ==
    /\ (pc \in {"loop", "returned"} =>
          Len(execution_history) = Len(history_at_call) + Len(results))
    /\ (pc = "returned" =>
          Len(execution_history) = Len(history_at_call) + Len(Steps))

\* C10: no retry: whatever retry_count is, a step's capability is invoked at
\* most once, and a raising capability ends the step with its one outcome.
C10_NoAutomaticRetry ==
    /\ \A j, k \in 1..Len(invoked) :
          invoked[j].index = invoked[k].index => j = k
    /\ Len(invoked) <= Len(results) + 1
    /\ pc = "awaiting" => Len(invoked) >= 1 /\ invoked[Len(invoked)].index = step_i

\* C10 witness: a step with a retry budget of 3 whose capability raised was
\* invoked once and ended in one error outcome.
C10_Witness ==
    /\ pc = "returned"
    /\ Len(Steps) = 1
    /\ Steps[1].retry_count = 3
    /\ Steps[1].tool \in TOOL_REGISTRY
    /\ Len(invoked) = 1
    /\ Len(results) = 1
    /\ results[1].result.status = "error"

\* C11: an error outcome of a runs_record_event step is not fatal: the loop
\* goes on to the next step as after an error of any other tool, and a
\* returned run has a result for every step.
C11_EventErrorNotFatal ==
    /\ [][(/\ pc = "loop"
           /\ step_i' = step_i + 1
           /\ results'[Len(results')].result.status = "error")
          =>
          (/\ pc' = "loop"
           /\ Len(results') = step_i'
           /\ act_plan' = act_plan)]_vars
    /\ [][(/\ StepResolves
           /\ running.step.tool = "runs_record_event"
           /\ running.behaviour.kind = "raise"
           /\ ExceptClause(running.behaviour.exc) = "error")
          =>
          (/\ pc' = "loop"
           /\ step_i' = step_i + 1
           /\ results'[Len(results')].result.status = "error")]_vars
    /\ [](pc = "returned" => Len(results) = Len(Steps))

\* C11 witness: the event step ended in an error and the step after it was
\* invoked and succeeded.
C11_Witness ==
    /\ pc = "returned"
    /\ Len(results) = 2
    /\ results[1].tool = "runs_record_event"
    /\ results[1].result.status = "error"
    /\ results[2].tool = "etl_run_job"
    /\ results[2].result.status = "success"
    /\ Len(invoked) = 2

IsPrefix(s, t) == Len(s) <= Len(t) /\ \A i \in 1..Len(s) : s[i] = t[i]

\* C12: the history is append-only: whatever is called -- plan, act and the
\* execute_step calls inside it, validate_plan, get_execution_summary -- the
\* history before a step is a prefix of the history after it.
C12_HistoryAppendOnly ==
    [][IsPrefix(execution_history, execution_history')]_vars

\* C12 witness: two entries were appended and every kind of call was made.
C12_Witness ==
    /\ Len(execution_history) >= 2
    /\ pc = "returned"
    /\ summary # NoSummary
    /\ v_result # "unset"
    /\ current_plan # act_plan

IsSummary(s) == "total_executions" \in DOMAIN s

\* C13: a summary of a non-empty history reports the number of entries, the
\* numbers of entries with status "success" and with status "failed", the
\* ratio of the former to the total, and the most recently appended entry.
C13_SummaryCounts ==
    [][(summary' # summary /\ execution_history # <<>>)
       =>
       LET h == execution_history' IN
       /\ IsSummary(summary')
       /\ summary'.total_executions = Len(h)
       /\ summary'.successful =
              Cardinality({i \in 1..Len(h) : h[i].status = "success"})
       /\ summary'.failed =
              Cardinality({i \in 1..Len(h) : h[i].status = "failed"})
       /\ summary'.success_rate.den > 0
       /\ summary'.success_rate.num * Len(h)
              = summary'.successful * summary'.success_rate.den
       /\ summary'.last_execution = h[Len(h)]]_vars

\* C13 witness: a summary of three entries, one of them failed, the last one
\* a success.
C13_Witness ==
    /\ IsSummary(summary)
    /\ summary.total_executions = 3
    /\ summary.successful = 2
    /\ summary.failed = 1
    /\ summary.success_rate = [num |-> 2, den |-> 3]
    /\ summary.last_execution.status = "success"
    /\ execution_history[1].status = "failed"

\* C14: on an empty history the summary is the no-history marker, with no
\* counts and no rate; so it is after a run whose steps all timed out.
C14_EmptyHistoryMarker ==
    [][(summary' # summary /\ execution_history = <<>>)
       => summary' = NoHistoryMarker]_vars

\* C14 witness: a run of a planned goal returned, every step timed out, and
\* the summary is the marker.
C14_Witness ==
    /\ pc = "returned"
    /\ Len(results) >= 3
    /\ \A k \in 1..Len(results) : results[k].result.status = "timeout"
    /\ abandoned >= 1
    /\ execution_history = <<>>
    /\ summary = NoHistoryMarker

SummaryLen(s) == IF IsSummary(s) THEN s.total_executions ELSE 0

\* C15: get_execution_summary is a pure read: a step that returns a new
\* summary leaves the history, the current plan and the run in progress as
\* they were; and while nothing has been appended since a summary was
\* returned, a further call returns the same summary.
C15_SummaryIsPureRead ==
    /\ [][summary' # summary
          => /\ execution_history' = execution_history
             /\ current_plan' = current_plan
             /\ UNCHANGED <<pc, act_plan, step_i, results, running>>]_vars
    /\ [][(summary # NoSummary /\ SummaryLen(summary) = Len(execution_history))
          => summary' = summary]_vars

\* C15 witness: a summary returned in the middle of a run, up to date with a
\* history of two entries.
C15_Witness ==
    /\ pc = "awaiting"
    /\ IsSummary(summary)
    /\ summary.total_executions = 2
    /\ Len(execution_history) = 2
    /\ current_plan # NoCurrentPlan

StepTools(steps) == [i \in 1..Len(steps) |-> steps[i].tool]

\* C16: the plan of the example goal is the PLAN event, the ETL job, the
\* artifact write and the DONE event; run on a fresh orchestrator with every
\* capability succeeding it gives four outcomes and a summary of 4 in total,
\* 4 successful, 0 failed and rate 1.
C16_EtlExample ==
    /\ (current_plan # NoCurrentPlan /\ current_plan.goal = ExampleGoal)
       => /\ StepTools(current_plan.steps)
                = <<"runs_record_event", "etl_run_job",
                    "artifacts_write_text", "runs_record_event">>
          /\ current_plan.steps[1].args.event_type = "PLAN"
          /\ current_plan.steps[4].args.event_type = "DONE"
    /\ (/\ pc = "returned"
        /\ act_plan.goal = ExampleGoal
        /\ history_at_call = <<>>
        /\ \A k \in 1..Len(results) : results[k].result.status = "success")
       => /\ Len(results) = 4
          /\ Len(execution_history) = 4
          /\ (IsSummary(summary) /\ summary.total_executions = 4)
             => /\ summary.successful = 4
                /\ summary.failed = 0
                /\ summary.success_rate = [num |-> 1, den |-> 1]

\* C16 witness: the example goal was planned and run, every step succeeded,
\* and the summary was taken afterwards.
C16_Witness ==
    /\ pc = "returned"
    /\ act_plan.goal = ExampleGoal
    /\ Len(results) = 4
    /\ \A k \in 1..Len(results) : results[k].result.status = "success"
    /\ IsSummary(summary)
    /\ summary.total_executions = 4
    /\ summary.success_rate = [num |-> 1, den |-> 1]

LastStep(steps) == steps[Len(steps)]

\* C17: every plan has steps, and the dependencies of its last step are
\* indices of earlier steps (steps are numbered from 0).
C17_LastStepDependsBackward ==
    current_plan # NoCurrentPlan
    => /\ Len(current_plan.steps) >= 1
       /\ \A j \in 1..Len(LastStep(current_plan.steps).depends_on) :
              LET dep == LastStep(current_plan.steps).depends_on[j] IN
              dep >= 0 /\ dep < Len(current_plan.steps) - 1

\* C17 witness: the shortest plan the planner makes, with the closing step
\* depending on the one domain step.
C17_Witness ==
    /\ current_plan # NoCurrentPlan
    /\ Len(current_plan.steps) = 3
    /\ LastStep(current_plan.steps).depends_on = <<1>>

IsEventStep(step, event_type) ==
    /\ step.tool = "runs_record_event"
    /\ step.args.event_type = event_type

\* C18: step 0 of every plan is the PLAN event step with no dependencies,
\* the last step is the DONE event step, the steps between them are the
\* domain steps, and the DONE step depends on exactly the last of these.
C18_PlanFramedByEvents ==
    current_plan # NoCurrentPlan
    => LET steps == current_plan.steps IN
       /\ Len(steps) >= 3
       /\ IsEventStep(steps[1], "PLAN")
       /\ steps[1].depends_on = <<>>
       /\ steps[1].args.details.goal = current_plan.goal
       /\ IsEventStep(LastStep(steps), "DONE")
       /\ LastStep(steps).args.details.goal = current_plan.goal
       /\ \A i \in 2..(Len(steps) - 1) : steps[i].tool # "runs_record_event"
       /\ LastStep(steps).depends_on = <<Len(steps) - 2>>

\* C18 witness: a four-step plan whose DONE step depends on step 2.
C18_Witness ==
    /\ current_plan # NoCurrentPlan
    /\ Len(current_plan.steps) = 4
    /\ current_plan.steps[2].tool = "train_model"
    /\ LastStep(current_plan.steps).depends_on = <<2>>

\* the workflow a plan was made from, read off its first domain step
TemplateOf(steps) ==
    CASE steps[2].tool = "train_model" -> "training"
      [] steps[2].tool = "deploy_agent" -> "deployment"
      [] steps[2].tool = "etl_run_job"
         /\ "pipeline" \in DOMAIN steps[2].args.payload -> "etl"
      [] steps[2].tool = "etl_run_job"
         /\ "type" \in DOMAIN steps[2].args.payload -> "generic"
      [] OTHER -> "none"

MatchesAny(goal, keywords) ==
    \E kw \in keywords : Contains(ToLower(goal), kw)

\* C19: the workflow is chosen by the first keyword group, in the order ETL,
\* training, deployment, that has a keyword occurring in the lower-cased goal;
\* the generic workflow is chosen when there is none.
C19_FirstMatchingGroup ==
    current_plan # NoCurrentPlan
    => LET goal == current_plan.goal
           template == TemplateOf(current_plan.steps)
       IN
       /\ MatchesAny(goal, {KwEtl, KwData, KwPipeline}) => template = "etl"
       /\ (/\ ~MatchesAny(goal, {KwEtl, KwData, KwPipeline})
           /\ MatchesAny(goal, {KwTrain, KwModel})) => template = "training"
       /\ (/\ ~MatchesAny(goal, {KwEtl, KwData, KwPipeline})
           /\ ~MatchesAny(goal, {KwTrain, KwModel})
           /\ MatchesAny(goal, {KwDeploy, KwAgent})) => template = "deployment"
       /\ (/\ ~MatchesAny(goal, {KwEtl, KwData, KwPipeline})
           /\ ~MatchesAny(goal, {KwTrain, KwModel})
           /\ ~MatchesAny(goal, {KwDeploy, KwAgent})) => template = "generic"

\* C19 witness: "retrain Data" holds keywords of the training and the ETL
\* group and gets the ETL workflow.
C19_Witness ==
    /\ current_plan # NoCurrentPlan
    /\ current_plan.goal
           = <<114, 101, 116, 114, 97, 105, 110, 32, 68, 97, 116, 97>>
    /\ TemplateOf(current_plan.steps) = "etl"

\* the fields of a step list that do not depend on the clock or the goal text
Shape(steps) ==
    [i \in 1..Len(steps) |->
        [tool |-> steps[i].tool, depends_on |-> steps[i].depends_on,
         timeout |-> steps[i].timeout, retry_count |-> steps[i].retry_count]]

\* C20: two plans made for the same goal have the same length and, position
\* by position, the same tool, dependencies, timeout and retry count --
\* whatever was called between the two plan() calls and whatever state the
\* orchestrator was in. The plan being run and the plan last validated are
\* plans of earlier calls.
C20_PlanDeterministic ==
    /\ [][(/\ current_plan # NoCurrentPlan
           /\ current_plan' # current_plan
           /\ current_plan'.goal = current_plan.goal)
          => Shape(current_plan'.steps) = Shape(current_plan.steps)]_vars
    /\ []((/\ pc # "idle"
           /\ current_plan # NoCurrentPlan
           /\ act_plan.goal = current_plan.goal)
          => Shape(act_plan.steps) = Shape(current_plan.steps))
    /\ []((/\ v_result # "unset"
           /\ v_plan.goal = current_plan.goal)
          => Shape(v_plan.steps) = Shape(current_plan.steps))

\* C20 witness: the goal of the plan being run was planned again at a later
\* clock reading, after another goal had been planned and validated and after
\* the history had grown.
C20_Witness ==
    /\ pc # "idle"
    /\ current_plan # NoCurrentPlan
    /\ act_plan.goal = current_plan.goal
    /\ act_plan.created_at < current_plan.created_at
    /\ v_result # "unset"
    /\ v_plan.goal # current_plan.goal
    /\ execution_history # <<>>

\* C21: plan() accepts the empty goal and gives it the generic workflow: the
\* PLAN event, the ETL job of type "generic", the artifact write, the DONE
\* event.
C21_EmptyGoalGeneric ==
    (current_plan # NoCurrentPlan /\ current_plan.goal = <<>>)
    => LET steps == current_plan.steps IN
       /\ StepTools(steps) = <<"runs_record_event", "etl_run_job",
                               "artifacts_write_text", "runs_record_event">>
       /\ steps[1].args.event_type = "PLAN"
       /\ steps[2].args.payload = [goal |-> <<>>, type |-> "generic"]
       /\ steps[4].args.event_type = "DONE"

\* C21 witness: the empty goal has been planned.
C21_Witness ==
    /\ current_plan # NoCurrentPlan
    /\ current_plan.goal = <<>>
    /\ TemplateOf(current_plan.steps) = "generic"

\* C23: a step execution is decided by whichever of completion and timeout
\* comes first: a capability that returns or raises before the timeout gives
\* its result or its error, never "timeout"; a capability that outlasts the
\* timeout gives "timeout", never its result.
C23_FirstToResolveDecides ==
    [][StepResolves =>
         LET outcome == results'[Len(results')].result IN
         /\ Len(results') = Len(results) + 1
         /\ (running.duration < running.step.timeout
             => /\ outcome.status # "timeout"
                /\ running.behaviour.kind = "return"
                   => outcome = running.behaviour.value
                /\ running.behaviour.kind = "raise"
                   => outcome = ErrorOutcome(running.step,
                                             running.behaviour.exc))
         /\ (running.duration > running.step.timeout
             => outcome = TimeoutOutcome(running.step))]_vars

\* the artifact path a plan carries, "" when it has no artifact step
ArtifactPath(steps) ==
    IF \E i \in 1..Len(steps) : steps[i].tool = "artifacts_write_text"
    THEN steps[CHOOSE i \in 1..Len(steps) :
                   steps[i].tool = "artifacts_write_text"].args.path
    ELSE ""

\* C28: two plans made by distinct plan() calls for goals of the same
\* workflow carry different artifact paths, also when the clock reads the
\* same second at both calls.
C28_ArtifactPathsDistinct ==
    [][(/\ current_plan # NoCurrentPlan
        /\ current_plan'.goal # current_plan.goal
        /\ TemplateOf(current_plan'.steps) = TemplateOf(current_plan.steps)
        /\ ArtifactPath(current_plan.steps) # "")
       => ArtifactPath(current_plan'.steps)
              # ArtifactPath(current_plan.steps)]_vars

\* C29: in one act() run no capability is started while an earlier one of
\* the run is still working, an abandoned one included (stated for the first
\* run of an orchestrator, where every abandoned invocation is the run's own).
C29_OneCapabilityAtATime ==
    (pc = "awaiting" /\ executed = Len(invoked)) => abandoned = 0

\* C24: the caller of a plan execution receives the overall status
\* "completed" once every step has been attempted, failed steps or not, and
\* with it the full sequence of outcomes ("failed-to-start" is the status of
\* a plan that validation rejected).
C24_OverallStatusAndOutcomes ==
    (caller.kind \in {"api", "cli"} /\ caller.pc = "done")
    => /\ caller.response.status = "completed"
       /\ caller.response.results = Some(results)
       /\ Len(results) = Len(caller.plan.steps)

\* C25: plan(goal) hands exactly one lifecycle event to the event sink, and
\* changes nothing else outside the orchestrator's current plan.
C25_PlanEmitsOneEvent ==
    [][current_plan' # current_plan
       => /\ Len(emitted') = Len(emitted) + 1
          /\ UNCHANGED run_vars]_vars

\* the run of the caller's plan can take its next step
CallerCanProceed ==
    /\ caller.pc = "plan" => ENABLED (\E clock \in ClockReadings : EnginePlan(clock))
    /\ (caller.pc = "act" /\ pc = "idle") => ENABLED EngineAct
    /\ (caller.pc = "act" /\ pc = "loop")
       => ENABLED (TaskStepInvoke \/ ActReturn)
    /\ (caller.pc = "act" /\ pc = "awaiting")
       => ENABLED (CapabilityReturns \/ CapabilityRaises \/ TimeoutElapses)
    /\ (caller.pc = "recording" /\ caller.sink = "pending")
       => ENABLED (\E outcome \in SinkOutcomes : SinkStores(outcome))

\* every step of the caller's plan was attempted: its capability was invoked
EveryStepAttempted ==
    /\ caller.plan # NoCurrentPlan
    /\ Len(invoked) = Len(caller.plan.steps)
    /\ \A k \in 1..Len(invoked) :
           /\ invoked[k].index = k - 1
           /\ invoked[k].tool = caller.plan.steps[k].tool

\* C26: in the CLI engine a failure of the event sink at TASK_START or at
\* TASK_COMPLETE is swallowed: the call never raises, the goal is planned,
\* every step is attempted, and the result is returned.
C26_CliSwallowsSinkFailure ==
    caller.kind = "cli"
    => /\ caller.pc # "raised"
       /\ pc # "raised"
       /\ CallerCanProceed
       /\ (caller.pc = "start" => ENABLED CliRecordStart)
       /\ (caller.pc = "act" /\ pc = "returned") => ENABLED CliRecordComplete
       /\ (caller.pc = "recording" /\ caller.sink # "pending")
          => /\ ENABLED CliResume
             /\ caller.event # "TASK_ERROR"
       /\ caller.pc = "done"
          => /\ EveryStepAttempted
             /\ caller.response.status = "success"
             /\ caller.response.results = Some(results)
             /\ Len(results) = Len(caller.plan.steps)

\* C26 witness: the sink failed at TASK_START and at TASK_COMPLETE, and the
\* call returned its result.
C26_Witness ==
    /\ caller.kind = "cli"
    /\ caller.pc = "done"
    /\ Len(emitted) = 2
    /\ emitted[1] = [event_type |-> "TASK_START", outcome |-> "raised"]
    /\ emitted[2] = [event_type |-> "TASK_COMPLETE", outcome |-> "raised"]
    /\ Len(caller.response.results[1]) = 4

\* C27: in the voice orchestrator a failure of the event sink at
\* VOICE_COMMAND or at VOICE_COMPLETE does not abort the task: a returned call
\* has planned the goal and attempted every step, and its status is not
\* "error" (nothing but the event sink fails in these runs).
C27_VoiceSurvivesSinkFailure ==
    (caller.kind = "voice" /\ caller.pc = "done")
    => /\ EveryStepAttempted
       /\ caller.response.status # "error"

\* run k appended the entry: the tool and the arguments are those of a step
\* of its plan
OwnsEntry(k, entry) ==
    /\ tasks[k].pc # "idle"
    /\ \E i \in 1..Len(tasks[k].plan.steps) :
          /\ tasks[k].plan.steps[i].tool = entry.tool
          /\ tasks[k].plan.steps[i].args = entry.args

\* the run a history entry belongs to
EntryTask(entry) ==
    IF \E k \in TaskIds : OwnsEntry(k, entry)
    THEN CHOOSE k \in TaskIds : OwnsEntry(k, entry)
    ELSE "none"

\* the entry that records the outcome r of step `step`, if one does
RECURSIVE RecordedEntries(_, _, _)
RecordedEntries(steps, res, k) ==
    IF k > Len(res) THEN <<>>
    ELSE LET r == res[k].result
             entry == IF r.status = "timeout" THEN <<>>
                      ELSE IF r.status = "error"
                      THEN <<[tool |-> steps[k].tool, args |-> steps[k].args,
                              error |-> r.error, status |-> "failed"]>>
                      ELSE <<[tool |-> steps[k].tool, args |-> steps[k].args,
                              result |-> r, status |-> "success"]>>
         IN  entry \o RecordedEntries(steps, res, k + 1)

RunEntries(k) ==
    IF tasks[k].pc = "idle" THEN <<>>
    ELSE RecordedEntries(tasks[k].plan.steps, tasks[k].results, 1)

RECURSIVE SumLen(_)
SumLen(S) ==
    IF S = {} THEN 0
    ELSE LET k == CHOOSE x \in S : TRUE
         IN  Len(RunEntries(k)) + SumLen(S \ {k})

\* C22: with several requests planned and run together on one orchestrator, the
\* history holds exactly one intact entry for every recorded step outcome:
\* the entries of each run, picked out of the history, are the entries of
\* that run's outcomes in step order, and there are no other entries.
C22_ConcurrentAppendsIntact ==
    /\ \A k \in TaskIds :
           SelectSeq(execution_history, LAMBDA e : EntryTask(e) = k)
               = RunEntries(k)
    /\ Len(execution_history) = SumLen(TaskIds)

\* C22 witness: both runs are finished, their entries are interleaved in
\* the history, one of them records a failure, and a step that timed out
\* left no entry.
C22_Witness ==
    /\ \A k \in TaskIds : tasks[k].pc = "returned"
    /\ Len(execution_history) = 6
    /\ EntryTask(execution_history[1]) = "t1"
    /\ EntryTask(execution_history[2]) = "t2"
    /\ EntryTask(execution_history[3]) = "t1"
    /\ execution_history[3].status = "failed"
    /\ current_plan.goal = ConcGoal("t2")

\* what an instance shows of itself: history, current plan and summary
Observed(os, h, i) ==
    [execution_history |-> HistoryOf(os, h, i),
     current_plan |-> os[i].current_plan,
     summary |-> get_execution_summary(HistoryOf(os, h, i))]

\* C30: constructing, planning or executing a step on one Orchestrator
\* instance leaves the execution history, the current plan and the
\* execution summary of every other instance as they were.
C30_InstancesIsolated ==
    [][\A j \in DOMAIN orchs :
           j # acting' => Observed(orchs', heap', j) = Observed(orchs, heap, j)
      ]_vars

\* C30 witness: two instances, the one last operated on with a history and a
\* plan of its own, the other with a different history and no plan.
C30_Witness ==
    /\ DOMAIN orchs = InstanceIds
    /\ acting = "a"
    /\ Len(HistoryOf(orchs, heap, "a")) = 2
    /\ Len(HistoryOf(orchs, heap, "b")) = 1
    /\ HistoryOf(orchs, heap, "a")[1] # HistoryOf(orchs, heap, "b")[1]
    /\ orchs["a"].current_plan # NoCurrentPlan
    /\ orchs["b"].current_plan = NoCurrentPlan

\* execute_step is entered for a step whose tool the registry does not have
UnknownToolStep ==
    /\ pc = "loop"
    /\ step_i < Len(Steps)
    /\ CurrentStep.tool \notin TOOL_REGISTRY
    /\ <<pc, step_i, results, execution_history>>'
           # <<pc, step_i, results, execution_history>>

\* C31: a step whose tool is not registered does not raise out of
\* execute_step or act: it ends in the outcome with status 'error' and the
\* message 'Unknown tool: <name>', one failed entry is appended to the
\* history, no capability is invoked, and the loop goes on to the next step.
C31_UnknownToolBecomesError ==
    /\ [][UnknownToolStep =>
          (/\ pc' = "loop"
           /\ step_i' = step_i + 1
           /\ results' =
                Append(results,
                       [tool |-> CurrentStep.tool,
                        result |-> [status |-> "error",
                                    tool |-> CurrentStep.tool,
                                    error |-> "Unknown tool: "
                                              \o CurrentStep.tool]])
           /\ execution_history' =
                Append(execution_history,
                       [tool |-> CurrentStep.tool,
                        args |-> CurrentStep.args,
                        error |-> "Unknown tool: " \o CurrentStep.tool,
                        status |-> "failed"])
           /\ invoked' = invoked
           /\ running' = NoCall)]_vars
    /\ [](pc # "raised")
    /\ [](pc = "returned" => Len(results) = Len(Steps))

\* C31 witness: the first step named an unknown tool, and the step after it
\* was invoked and succeeded.
C31_Witness ==
    /\ pc = "returned"
    /\ Len(results) = 2
    /\ results[1].tool = "no_such_tool"
    /\ results[1].result.error = "Unknown tool: no_such_tool"
    /\ results[2].result.status = "success"
    /\ Len(invoked) = 1
    /\ invoked[1].index = 1
    /\ execution_history[Len(execution_history) - 1].status = "failed"

\* C32: every plan the planner produces is accepted by validate_plan: all
\* its tools are registered and every dependency of every step is smaller
\* than the step's own index.
C32_PlannedPlansValidate ==
    current_plan # NoCurrentPlan
    => /\ validate_plan(current_plan)
       /\ AllToolsRegistered(current_plan)
       /\ AllDepsBackward(current_plan)

\* C32 witness: a four-step plan of the ETL workflow, each step after the
\* first depending on the step before it, accepted by validate_plan.
C32_Witness ==
    /\ current_plan # NoCurrentPlan
    /\ validate_plan(current_plan)
    /\ Len(current_plan.steps) = 4
    /\ current_plan.steps[2].tool = "etl_run_job"
    /\ \A k \in 2..4 : current_plan.steps[k].depends_on = <<k - 2>>

\* C33: dependencies are not consulted at run time: when the next step of
\* the loop depends on a step that ended in an error or a timeout, the loop
\* goes on by invoking that step's capability, and in a returned run every
\* such step was invoked; so the closing DONE step is executed although the
\* domain step it depends on failed.
C33_DependenciesNotConsulted ==
    /\ [][(/\ pc = "loop"
           /\ step_i < Len(Steps)
           /\ DependencyFailed(Steps, results, step_i + 1)
           /\ pc' # pc)
          =>
          (/\ pc' = "awaiting"
           /\ running'.index = step_i
           /\ running'.step = Steps[step_i + 1]
           /\ Len(invoked') = Len(invoked) + 1
           /\ invoked'[Len(invoked')].index = step_i)]_vars
    /\ [](pc = "returned" =>
            \A k \in 1..Len(Steps) :
                DependencyFailed(Steps, results, k) =>
                    /\ Len(results) >= k
                    /\ \E j \in 1..Len(invoked) : invoked[j].index = k - 1)

\* C33 witness: in a returned run of a planned goal the artifact step timed
\* out, and the DONE step, which depends on it, was invoked and succeeded.
C33_Witness ==
    /\ pc = "returned"
    /\ Len(Steps) = 4
    /\ results[3].result.status = "timeout"
    /\ IsEventStep(Steps[4], "DONE")
    /\ Steps[4].depends_on = <<2>>
    /\ Len(invoked) = 4
    /\ invoked[4].index = 3
    /\ results[4].result.status = "success"

\* some earlier step of the run was resolved as a timeout
TimedOutBefore ==
    \E k \in 1..Len(results) : results[k].result.status = "timeout"

\* C34: when the capability of a step already resolved as 'timeout'
\* finishes late, nothing of the orchestrator changes: no history entry is
\* appended and the outcomes collected so far stay as they are; and a later
\* step whose capability returns or raises in time still ends in its own
\* outcome.
C34_LateCompletionHasNoEffect ==
    /\ [][abandoned' < abandoned =>
          UNCHANGED <<execution_history, results, pc, step_i, running,
                      act_plan, invoked, current_plan, summary>>]_vars
    /\ [][(/\ StepResolves
           /\ TimedOutBefore
           /\ running.duration < running.step.timeout)
          =>
          (results' =
             Append(results,
                    [tool |-> running.step.tool,
                     result |-> IF running.behaviour.kind = "return"
                                THEN running.behaviour.value
                                ELSE ErrorOutcome(running.step,
                                                  running.behaviour.exc)]))
      ]_vars

\* C34 witness: the job step timed out, its abandoned capability has
\* finished since, and the two steps after it succeeded; the history holds
\* the three recorded steps only.
C34_Witness ==
    /\ pc = "returned"
    /\ Len(results) = 4
    /\ results[2].result.status = "timeout"
    /\ abandoned = 0
    /\ results[3].result.status = "success"
    /\ results[4].result.status = "success"
    /\ Len(execution_history) = 3

\* successful + failed = total_executions and 0 <= success_rate <= 1
SummaryAddsUp(s) ==
    /\ s.successful + s.failed = s.total_executions
    /\ s.success_rate.den > 0
    /\ 0 <= s.success_rate.num
    /\ s.success_rate.num <= s.success_rate.den

\* C35: every history entry has status 'success' or 'failed'; so the summary
\* of a non-empty history, and every summary returned for one, has
\* successful + failed = total_executions and a success rate between 0 and 1.
C35_EntriesSuccessOrFailed ==
    /\ \A k \in 1..Len(execution_history) :
           execution_history[k].status \in {"success", "failed"}
    /\ execution_history # <<>> =>
           SummaryAddsUp(get_execution_summary(execution_history))
    /\ IsSummary(summary) => SummaryAddsUp(summary)

\* C35 witness: a summary returned for a history of one success and one
\* failure.
C35_Witness ==
    /\ Len(execution_history) = 2
    /\ execution_history[1].status = "success"
    /\ execution_history[2].status = "failed"
    /\ summary = get_execution_summary(execution_history)
    /\ summary.success_rate = [num |-> 1, den |-> 2]

\* a key is missing, or a dependency is a value that is no number
Malformed(plan) ==
    \/ "steps" \notin DOMAIN plan
    \/ \E k \in 1..Len(plan.steps) : "tool" \notin DOMAIN plan.steps[k]
    \/ \E k \in 1..Len(plan.steps) :
           \E j \in 1..Len(StepDeps(plan.steps[k])) :
               ~IsPyInt(StepDeps(plan.steps[k])[j])

\* C36: validate_plan never raises, returns false for a malformed plan (no
\* "steps" key, a step without a "tool" key, a dependency that cannot be
\* compared with an index), and whatever it is called with it leaves the
\* history, the current plan and the run in progress as they were.
C36_ValidateNeverRaises ==
    /\ [](v_result # "unset" =>
            /\ v_result \in {"true", "false"}
            /\ Malformed(v_plan) => v_result = "false")
    /\ [][(v_plan' # v_plan \/ v_result' # v_result) =>
          UNCHANGED <<execution_history, current_plan, pc, step_i, results,
                      running, invoked, summary>>]_vars

\* C36 witness: validate_plan has just returned false for a plan whose second
\* step depends on a string, called after a plan was made and run.
C36_Witness ==
    /\ v_result = "false"
    /\ "steps" \in DOMAIN v_plan
    /\ Len(v_plan.steps) = 2
    /\ \A k \in 1..2 : "tool" \in DOMAIN v_plan.steps[k]
    /\ \A k \in 1..2 : v_plan.steps[k].tool \in TOOL_REGISTRY
    /\ StepDeps(v_plan.steps[1]) = <<>>
    /\ ~IsPyInt(StepDeps(v_plan.steps[2])[1])
    /\ execution_history # <<>>
    /\ current_plan # NoCurrentPlan

\* C37: plan(goal) invokes no tool and leaves the history and the run in
\* progress as they are; it changes current_plan only, to the plan just
\* produced.  act(plan) executes the plan it was passed: the plan of a run
\* changes only when act is entered, and every capability invoked is that of
\* the next step of this plan, whatever current_plan is by then.
C37_PlanFrameAndActArgument ==
    /\ [][current_plan' # current_plan =>
          (/\ UNCHANGED <<execution_history, pc, act_plan, step_i, results,
                          running, abandoned, invoked, summary>>
           /\ \E goal \in TaskGoals, clock \in ClockReadings :
                  current_plan' = Plan(goal, clock))]_vars
    /\ [][act_plan' # act_plan =>
          (pc \in {"idle", "returned"} /\ pc' = "loop")]_vars
    /\ [][(pc = "loop" /\ pc' = "awaiting") =>
          (/\ running'.step = act_plan.steps[step_i + 1]
           /\ invoked'[Len(invoked')].tool = act_plan.steps[step_i + 1].tool
           /\ invoked'[Len(invoked')].args = act_plan.steps[step_i + 1].args)
      ]_vars
    /\ [](\A k \in 1..Len(invoked) :
              /\ invoked[k].tool = act_plan.steps[invoked[k].index + 1].tool
              /\ invoked[k].args = act_plan.steps[invoked[k].index + 1].args)

\* C37 witness: a run of the plan for the ETL goal has returned with all four
\* capabilities of that plan invoked, while current_plan is the plan made
\* for the deployment goal in the meantime.
C37_Witness ==
    /\ pc = "returned"
    /\ act_plan.goal = ExampleGoal
    /\ current_plan # NoCurrentPlan
    /\ current_plan.goal = DeployGoal
    /\ Len(invoked) = 4
    /\ invoked[2].tool = "etl_run_job"
    /\ \A k \in 1..Len(current_plan.steps) :
           current_plan.steps[k].tool # "etl_run_job"

\* the outcomes driver k collected, without act's wrapping
DriverOutcomes(k) ==
    IF DriverOf(k) = "cli" THEN tasks[k].results
    ELSE [i \in 1..Len(tasks[k].results) |-> tasks[k].results[i].result]

\* C38: the CLI engine's loop and act are equivalent drivers: given the same
\* plan and capabilities that behave the same way, at every moment the calls
\* and the history of the one that is behind are a prefix of the other's,
\* neither returns before the last step, and when both have returned they
\* have invoked the same capabilities in the same order, collected the same
\* outcomes and left equal histories.
C38_CliLoopEquivalentToAct ==
    tasks["t1"].pc # "idle" =>
    LET a == tasks["t1"]
        c == tasks["t2"]
    IN  /\ IsPrefix(a.invoked, c.invoked) \/ IsPrefix(c.invoked, a.invoked)
        /\ IsPrefix(a.history, c.history) \/ IsPrefix(c.history, a.history)
        /\ IsPrefix(DriverOutcomes("t1"), DriverOutcomes("t2"))
           \/ IsPrefix(DriverOutcomes("t2"), DriverOutcomes("t1"))
        /\ \A k \in TaskIds :
               tasks[k].pc = "returned" =>
                   /\ tasks[k].step_i = Len(tasks[k].plan.steps)
                   /\ Len(tasks[k].results) = Len(tasks[k].plan.steps)
        /\ (a.pc = "returned" /\ c.pc = "returned") =>
               /\ a.invoked = c.invoked
               /\ a.history = c.history
               /\ DriverOutcomes("t1") = DriverOutcomes("t2")

\* C38 witness: both drivers have returned from the four-step plan whose
\* second step timed out and whose third step names an unknown tool, with
\* the same three capabilities invoked and equal histories.
C38_Witness ==
    /\ \A k \in TaskIds : tasks[k].pc = "returned"
    /\ Len(tasks["t1"].plan.steps) = 4
    /\ tasks["t1"].results[2].result.status = "timeout"
    /\ tasks["t2"].results[3].status = "error"
    /\ tasks["t2"].results[4].status = "success"
    /\ Len(tasks["t2"].invoked) = 3
    /\ tasks["t1"].invoked = tasks["t2"].invoked
    /\ Len(tasks["t1"].history) = 3
    /\ tasks["t1"].history = tasks["t2"].history

\* a step of the plan has a timeout that is zero or negative
HasNonPositiveTimeout(plan) ==
    \E k \in 1..Len(plan.steps) : plan.steps[k].timeout <= 0

\* C39: a step's timeout must be positive: a plan with a step whose timeout
\* is zero or negative is not accepted by validate_plan, no such step is
\* executed to an outcome, and no capability is run under such a timeout.
C39_TimeoutMustBePositive ==
    /\ (v_result = "true" => ~HasNonPositiveTimeout(v_plan))
    /\ \A k \in 1..Len(results) : act_plan.steps[k].timeout > 0
    /\ \A j \in 1..Len(invoked) :
           act_plan.steps[invoked[j].index + 1].timeout > 0

====
